---------------------------- MODULE Spec2Model ----------------------------
(***************************************************************************)
(* A model of the pixel sorter: the interval sorter (sort_image,           *)
(* sort_filter), apply_sort_mask of the older script pixelsort.py and the  *)
(* tile coordinator (sort_image_tiles).                                    *)
(*                                                                         *)
(* Python lists are sequences; a Python index k is position k+1.           *)
(* A pixel is <<R, G, B>>, a coordinate is <<x, y>>.  A Python float that  *)
(* the model needs is a fraction <<numerator, denominator>> with an exact  *)
(* binary value, so that the float arithmetic of the code on it is exact;  *)
(* the tile accumulator, whose arithmetic is not exact, is modelled with   *)
(* the rounding of IEEE doubles (see the section on sort_image_tiles).     *)
(***************************************************************************)
EXTENDS Integers, Sequences, FiniteSets, TLC

VARIABLES
    pc,                   \* position of the running call
    image,                \* the caller's pixel list
    size,                 \* <<width, height>>
    args,                 \* the keyword arguments of sort_image
    out_pixels,           \* sort_image: the output list
    edge_data,            \* sort_image: the edge data in use
    path_iterator,        \* sort_image: the rows not yet started
    row_iter,             \* sort_image: the coordinates left in the current row
    path_finished,        \* sort_image: flag of the per-row loop
    current_max_interval, \* sort_image: <<numerator, denominator>>
    interval,             \* sort_image: the interval drawn last
    px_indices,           \* sort_image: the indices gathered last
    stop_idx,             \* sort_image: the index whose marker ended the last
                          \* gathering loop, -1 when it ended otherwise
    lst,                  \* sort_filter: the list l handed in
    filtered,             \* sort_filter: the list returned
    sort_mask,            \* apply_sort_mask: the mask handed in
    tile_size,            \* sort_image_tiles: <<tile_width, tile_height>>
    tile_density,         \* sort_image_tiles: <<numerator, denominator>>
    randomize_tiles,      \* sort_image_tiles: the flag
    out_image,            \* sort_image_tiles: the output list
    tile_i,               \* sort_image_tiles: the accumulator i, a double
    cells,                \* sort_image_tiles: the corners (x, y) not yet visited
    tiles_completed,      \* sort_image_tiles: the number of corners visited
    tiles_sorted,         \* sort_image_tiles: the corners of the tiles that
                          \* were handed to sort_image, in order
    tile_stage,           \* the tile steps in any order: how far the tile at
                          \* each corner has come
    tile_buffer,          \* the tile steps in any order: tile and sorted_tile
                          \* of the tile at each corner
    cli_args,             \* the command line: script, --sortkey and --path
    path,                 \* path_to_list: the name of the path in PIXEL_PATH_DICT
    path_kwargs,          \* the keyword arguments of the path: angle, radius
    path_rows,            \* path_to_list: the list of rows returned
    distribution,         \* random_walk_path: the parameter, [given, weights]
    walk_weights,         \* random_walk_path: distribution after normalization
    start_points,         \* random_walk_path: the start points still to come
    random_starts,        \* random_walk_path: the number of random start
                          \* points still to come
    walk_pos,             \* random_walk_iter: (x, y)
    walk_len,             \* random_walk_iter: the number of coordinates yielded
    yielded,              \* the coordinate yielded last, <<>> before the first
    line_starts,          \* angled_path: the start points still to come
    line                  \* draw_line: its local variables

\* the caller's data
callvars == <<image, size, args, cli_args>>

\* the caller's data but the pixel list
configvars == <<size, args, cli_args>>

\* the locals of sort_image
sortvars == <<out_pixels, edge_data, path_iterator, row_iter, path_finished,
              current_max_interval, interval, px_indices, stop_idx>>

\* the argument and the result of sort_filter
filtervars == <<lst, filtered>>

\* the mask of apply_sort_mask
maskvars == <<sort_mask>>

\* the parameters and locals of sort_image_tiles
tilevars == <<tile_size, tile_density, randomize_tiles, out_image, tile_i, cells,
              tiles_completed, tiles_sorted, tile_stage, tile_buffer>>

\* the path generators
pathvars == <<path, path_kwargs, path_rows, distribution, walk_weights, start_points,
              random_starts, walk_pos, walk_len, yielded, line_starts, line>>

vars == <<pc, callvars, sortvars, filtervars, maskvars, tilevars, pathvars>>

\* None where a name is expected, and None where a list or a tuple is
None == "None"

NoneSeq == <<>>

(***************************************************************************)
(* Bounds of the model.                                                    *)
(***************************************************************************)
MaxArea == 4

Pixels == {<<1, 0, 0>>, <<2, 0, 0>>, <<3, 0, 0>>, <<2, 255, 0>>}

MaskPixels == {<<0, 0, 0>>, <<255, 255, 255>>}

Sizes == {s \in (1..MaxArea) \X (1..MaxArea) : s[1] * s[2] <= MaxArea}

Images(s) == [1..(s[1] * s[2]) -> Pixels]

(***************************************************************************)
(* util.py                                                                 *)
(***************************************************************************)
Min(a, b) == IF a <= b THEN a ELSE b

Max(a, b) == IF a >= b THEN a ELSE b

\* index of the pixel at coords in a row-major list
coords_to_index(coords, width) == coords[2] * width + coords[1]

\* the element of a Python list at a Python index
At(l, k) == l[k + 1]

\* clamp on fractions with positive denominators, for a = 0 and b = 1
clamp(x, a, b) ==
    IF x[1] > x[2] * b THEN <<b, 1>>
    ELSE IF x[1] < x[2] * a THEN <<a, 1>>
    ELSE x

(***************************************************************************)
(* pixelkeys.py.  luma is 10000 times the luma of the code, to stay in the *)
(* integers; the comparisons with it scale their other side alike.         *)
(***************************************************************************)
luma(p) == 2126 * p[1] + 7152 * p[2] + 722 * p[3]

red(p) == p[1]

green(p) == p[2]

blue(p) == p[3]

sum(p) == p[1] + p[2] + p[3]

value(p) == Max(p[1], Max(p[2], p[3]))

chroma(p) == Max(p[1], Max(p[2], p[3])) - Min(p[1], Min(p[2], p[3]))

PIXEL_KEY_NAMES == {"red", "green", "blue", "sum", "value", "chroma"}

\* PIXEL_KEY_DICT[name](p), for the integer valued keys
KeyValue(name, p) ==
    CASE name = "red" -> red(p)
      [] name = "green" -> green(p)
      [] name = "blue" -> blue(p)
      [] name = "sum" -> sum(p)
      [] name = "value" -> value(p)
      [] name = "chroma" -> chroma(p)

(***************************************************************************)
(* pixelpaths.py: a path is a sequence of rows of coordinates.             *)
(***************************************************************************)
horizontal_path(sz) ==
    [y \in 1..sz[2] |-> [x \in 1..sz[1] |-> <<x - 1, y - 1>>]]

\* the columns with x and y exchanged
vertical_path_swapped(sz) ==
    [x \in 1..sz[1] |-> [y \in 1..sz[2] |-> <<y - 1, x - 1>>]]

vertical_path(sz) ==
    [x \in 1..sz[1] |-> [y \in 1..sz[2] |-> <<x - 1, y - 1>>]]

\* range(start, stop, step) of Python, as a list
range(start, stop, step) ==
    LET n == IF step > 0
             THEN Max(0, (stop - start + step - 1) \div step)
             ELSE Max(0, (start - stop - step - 1) \div (0 - step))
    IN  [k \in 1..n |-> start + (k - 1) * step]

\* ((x, x + offset) for x in range(max(0, -offset), min(width, height - offset)))
DiagonalRow(sz, offset) ==
    LET xs == range(Max(0, 0 - offset), Min(sz[1], sz[2] - offset), 1)
    IN  [j \in 1..Len(xs) |-> <<xs[j], xs[j] + offset>>]

\* the offsets taken from 1 - width up to height - 1
DiagonalOffsetsUp(sz) == range(1 - sz[1], sz[2], 1)

\* range(height - 1, -width, -1)
DiagonalOffsets(sz) == range(sz[2] - 1, 0 - sz[1], -1)

diagonal_path(sz) ==
    [i \in 1..Len(DiagonalOffsets(sz)) |-> DiagonalRow(sz, DiagonalOffsets(sz)[i])]

\* the two loops of diagonal_path_iter over the offsets that are left
RECURSIVE diagonal_path_iter(_, _)
diagonal_path_iter(sz, offsets) ==
    IF offsets = <<>> THEN <<>>
    ELSE LET offset == Head(offsets)
             xs == range(Max(0, 0 - offset), Min(sz[1], sz[2] - offset), 1)
         IN  [j \in 1..Len(xs) |-> <<xs[j], xs[j] + offset>>]
             \o diagonal_path_iter(sz, Tail(offsets))

\* the generator that yields the offsets from the last to the first
diagonal_single_path_up(sz) == <<diagonal_path_iter(sz, DiagonalOffsetsUp(sz))>>

diagonal_single_path(sz) == <<diagonal_path_iter(sz, DiagonalOffsets(sz))>>

\* conc_rect_iter without the test of line 118
conc_rect_iter_back(min_x, max_x, min_y, max_y) ==
    LET top == range(min_x, max_x, 1)
        right == range(min_y + 1, max_y, 1)
        bottom == range(max_x - 2, min_x - 1, -1)
        left == range(max_y - 2, min_y, -1)
    IN  [k \in 1..Len(top) |-> <<top[k], min_y>>]
        \o [k \in 1..Len(right) |-> <<max_x - 1, right[k]>>]
        \o [k \in 1..Len(bottom) |-> <<bottom[k], max_y - 1>>]
        \o [k \in 1..Len(left) |-> <<min_x, left[k]>>]

conc_rect_iter(min_x, max_x, min_y, max_y) ==
    LET top == range(min_x, max_x, 1)
        right == range(min_y + 1, max_y, 1)
        bottom == range(max_x - 2, min_x - 1, -1)
        left == range(max_y - 2, min_y, -1)
    IN  [k \in 1..Len(top) |-> <<top[k], min_y>>]
        \o IF min_y + 1 = max_y THEN <<>>
           ELSE [k \in 1..Len(right) |-> <<max_x - 1, right[k]>>]
                \o [k \in 1..Len(bottom) |-> <<bottom[k], max_y - 1>>]
                \o [k \in 1..Len(left) |-> <<min_x, left[k]>>]

\* the loop of concentric_rectangle_path, each row read when it is yielded
RECURSIVE ConcentricRows(_, _, _, _)
ConcentricRows(min_x, max_x, min_y, max_y) ==
    IF min_x < max_x /\ min_y < max_y
    THEN <<conc_rect_iter(min_x, max_x, min_y, max_y)>>
         \o ConcentricRows(min_x + 1, max_x - 1, min_y + 1, max_y - 1)
    ELSE <<>>

concentric_rectangle_path(sz) == ConcentricRows(0, sz[1], 0, sz[2])

\* the keys of PIXEL_PATH_DICT
PIXEL_PATH_NAMES ==
    {"angled-line", "circles", "concentric", "diagonal", "diagonal-single",
     "fill-circles", "horizontal", "random-walk", "random-walk-horizontal",
     "random-walk-vertical", "vertical"}

\* PIXEL_PATH_DICT[name](size), for the paths without random choices and
\* without keyword arguments
PathByName(name, sz) ==
    CASE name = "horizontal" -> horizontal_path(sz)
      [] name = "vertical" -> vertical_path(sz)
      [] name = "diagonal" -> diagonal_path(sz)
      [] name = "diagonal-single" -> diagonal_single_path(sz)
      [] name = "concentric" -> concentric_rectangle_path(sz)

(***************************************************************************)
(* sorted(l, key=sort_key, reverse=reverse) of Python: a stable sort.      *)
(* sort_key is the key of sort_image after discretization: a key of None   *)
(* compares the pixels themselves, as tuples.                              *)
(***************************************************************************)
\* tuples compared by their first component alone
TupleLessFirst(p, q) == p[1] < q[1]

TupleLess(p, q) ==
    \/ p[1] < q[1]
    \/ p[1] = q[1] /\ p[2] < q[2]
    \/ p[1] = q[1] /\ p[2] = q[2] /\ p[3] < q[3]

\* the key without the discretization
sort_key_plain(key, discretize, p) == KeyValue(key, p)

\* sort_key(p) for a key that is not None
sort_key(key, discretize, p) ==
    IF discretize > 0
    THEN KeyValue(key, p) \div discretize
    ELSE KeyValue(key, p)

\* p orders strictly before q
KeyLess(key, discretize, p, q) ==
    IF key = None
    THEN TupleLess(p, q)
    ELSE sort_key(key, discretize, p) < sort_key(key, discretize, q)

\* a sort that is not stable: x goes before the elements that order like it
InsertSortedUnstable(l, x, key, discretize, reverse) ==
    LET before(y) == IF reverse THEN KeyLess(key, discretize, x, y)
                     ELSE KeyLess(key, discretize, y, x)
        n == Cardinality({k \in 1..Len(l) : \E j \in k..Len(l) : before(l[j])})
    IN  SubSeq(l, 1, n) \o <<x>> \o SubSeq(l, n + 1, Len(l))

\* x goes behind every element that does not order strictly after it
InsertSorted(l, x, key, discretize, reverse) ==
    LET after(y) == IF reverse THEN KeyLess(key, discretize, y, x)
                    ELSE KeyLess(key, discretize, x, y)
        n == Cardinality({k \in 1..Len(l) : \E j \in k..Len(l) : ~after(l[j])})
    IN  SubSeq(l, 1, n) \o <<x>> \o SubSeq(l, n + 1, Len(l))

\* F(e) with e evaluated once, as an assignment to a local variable does
Once(e, F(_)) == CHOOSE r \in {F(v) : v \in {e}} : TRUE

RECURSIVE sorted(_, _, _, _)
sorted(l, key, discretize, reverse) ==
    IF l = <<>> THEN <<>>
    ELSE Once(sorted(SubSeq(l, 1, Len(l) - 1), key, discretize, reverse),
              LAMBDA s : InsertSorted(s, l[Len(l)], key, discretize, reverse))

(***************************************************************************)
(* sort_filter.  rnd is the value randrange(len(l)) returns when it is     *)
(* called; splice is a fraction.                                           *)
(***************************************************************************)
\* a negative index taken as counting from the start
PutAtFront(nl, put_index, v) ==
    IF put_index >= 0
    THEN [nl EXCEPT ![put_index + 1] = v]
    ELSE [nl EXCEPT ![1 - put_index] = v]

\* nl[put_index] = v, where a negative Python index counts from the end
PutAt(nl, put_index, v) ==
    IF put_index >= 0
    THEN [nl EXCEPT ![put_index + 1] = v]
    ELSE [nl EXCEPT ![Len(nl) + put_index + 1] = v]

\* the step with the test put_index > 0 in place of put_index >= 0
NextPutStrict(put_index) ==
    IF put_index > 0 THEN -(put_index + 1) ELSE -put_index

\* the step of put_index in the mirror loop
NextPut(put_index) ==
    IF put_index >= 0 THEN -(put_index + 1) ELSE -put_index

RECURSIVE MirrorLoop(_, _, _, _)
MirrorLoop(l, nl, get_index, put_index) ==
    IF get_index < Len(l)
    THEN MirrorLoop(l, PutAt(nl, put_index, At(l, get_index)),
                    get_index + 1, NextPut(put_index))
    ELSE nl

\* int(len(l) * splice): the length in place of the last index
SpliceStartLen(n, splice) == (n * splice[1]) \div splice[2]

\* int((len(l) - 1) * splice)
SpliceStart(n, splice) == ((n - 1) * splice[1]) \div splice[2]

\* nl[splice_start:] + nl[:splice_start]
Rotate(nl, splice_start) ==
    LET s == Min(splice_start, Len(nl))
    IN  SubSeq(nl, s + 1, Len(nl)) \o SubSeq(nl, 1, s)

sort_filter(l, mirror, splice, splice_random, rnd) ==
    IF Len(l) = 0 THEN l
    ELSE LET nl == IF mirror THEN MirrorLoop(l, l, 0, 0) ELSE l
         IN  IF splice_random THEN Rotate(nl, rnd)
             ELSE IF splice[1] > 0 THEN Rotate(nl, SpliceStart(Len(l), splice))
             ELSE nl

(***************************************************************************)
(* edge_detection.py.  An edge value is None (a border pixel, never set)   *)
(* or <<g_x, g_y>>, the two Sobel sums of the scaled luma: its magnitude   *)
(* is sqrt(g_x^2 + g_y^2) / 10000.                                         *)
(***************************************************************************)
edge_detect(img, sz) ==
    LET width == sz[1]
        height == sz[2]
        gray_scale_img == [k \in 1..Len(img) |-> luma(img[k])]
        sobel(idx) ==
            LET a == At(gray_scale_img, idx - 1 - width)
                b == At(gray_scale_img, idx - width)
                c == At(gray_scale_img, idx + 1 - width)
                d == At(gray_scale_img, idx - 1)
                f == At(gray_scale_img, idx + 1)
                g == At(gray_scale_img, idx - 1 + width)
                h == At(gray_scale_img, idx + width)
                i == At(gray_scale_img, idx + 1 + width)
            IN  << -a - 2 * d - d + c + 2 * f + i,
                   -a - 2 * b - c + g + 2 * h + i >>
    IN  [k \in 1..Len(img) |->
            LET x == (k - 1) % width
                y == (k - 1) \div width
            IN  IF x >= 1 /\ x <= width - 2 /\ y >= 1 /\ y <= height - 2
                THEN sobel(k - 1)
                ELSE NoneSeq]

Abs(n) == IF n < 0 THEN -n ELSE n

\* n * n for 0 <= n < 2^31 as <<c2, c1, c0>>, digits of base 10000
Square(n) ==
    LET a == n \div 10000
        b == n % 10000
    IN  <<a * a, 2 * a * b, b * b>>

\* the digits of base 10000 normalised: every digit but the first below 10000
Carry(t) ==
    LET c1 == t[2] + t[3] \div 10000
    IN  <<t[1] + c1 \div 10000, c1 % 10000, t[3] % 10000>>

\* e > threshold for an edge value e = <<g_x, g_y>> and an integer threshold
EdgeAbove(e, threshold) ==
    LET sx == Square(Abs(e[1]))
        sy == Square(Abs(e[2]))
        g2 == Carry(<<sx[1] + sy[1], sx[2] + sy[2], sx[3] + sy[3]>>)
        t2 == <<threshold * threshold, 0, 0>>
    IN  \/ g2[1] > t2[1]
        \/ g2[1] = t2[1] /\ (g2[2] > 0 \/ g2[3] > 0)

(***************************************************************************)
(* sort_image of pixelsorter/sort.py                                       *)
(***************************************************************************)
\* the defaults of the keyword arguments
DefaultArgs ==
    [vertical |-> FALSE, path |-> None, max_interval |-> 0,
     progressive_amount |-> <<0, 1>>, randomize |-> FALSE,
     edge_threshold |-> 0, edge_data |-> NoneSeq, image_threshold |-> NoneSeq,
     image_mask |-> NoneSeq, key |-> None, discretize |-> 0, reverse |-> FALSE,
     mirror |-> FALSE, splice |-> <<0, 1>>, splice_random |-> FALSE]

\* image_threshold after the clamp
ImageThreshold(a) ==
    IF a.image_threshold = NoneSeq THEN NoneSeq ELSE clamp(a.image_threshold, 0, 1)

\* brightness < t or brightness > 255 - t, with t = image_threshold * 255 / 2
OutsideBand(p, th) ==
    \/ luma(p) * 2 * th[2] < th[1] * 2550000
    \/ luma(p) * 2 * th[2] > 2550000 * 2 * th[2] - th[1] * 2550000

\* the test on a pixel that raises: None > edge_threshold
EdgeTestRaises(a, ed, idx) == ed # NoneSeq /\ At(ed, idx) = NoneSeq

\* the three tests that end an interval at the pixel idx
Boundary(a, img, ed, idx) ==
    \/ a.image_mask # NoneSeq /\ luma(At(a.image_mask, idx)) > 1280000
    \/ ed # NoneSeq /\ a.edge_threshold > 0 /\ EdgeAbove(At(ed, idx), a.edge_threshold)
    \/ ImageThreshold(a) # NoneSeq /\ OutsideBand(At(img, idx), ImageThreshold(a))

\* the first test alone, which comes before the edge test
MaskBoundary(a, idx) ==
    a.image_mask # NoneSeq /\ luma(At(a.image_mask, idx)) > 1280000

\* the loop that gathers the indices of an interval from the row
RECURSIVE Gather(_, _, _, _, _, _, _, _)
Gather(a, img, ed, width, row, i, iv, px) ==
    IF ~(i * iv[2] < iv[1] \/ iv[1] = 0)
    THEN [px_indices |-> px, row_iter |-> row, path_finished |-> FALSE,
          stop_idx |-> -1, raised |-> FALSE]
    ELSE IF row = <<>>
    THEN [px_indices |-> px, row_iter |-> row, path_finished |-> TRUE,
          stop_idx |-> -1, raised |-> FALSE]
    ELSE LET idx == coords_to_index(Head(row), width)
         IN  IF ~MaskBoundary(a, idx) /\ EdgeTestRaises(a, ed, idx)
             THEN [px_indices |-> px, row_iter |-> Tail(row), path_finished |-> FALSE,
                   stop_idx |-> idx, raised |-> TRUE]
             ELSE IF Boundary(a, img, ed, idx)
             THEN [px_indices |-> px, row_iter |-> Tail(row), path_finished |-> FALSE,
                   stop_idx |-> idx, raised |-> FALSE]
             ELSE Gather(a, img, ed, width, Tail(row), i + 1, iv, Append(px, idx))

\* out_pixels[px[i]] = sorted_pixels[i] for i in range(len(px)), in this order
RECURSIVE WriteBack(_, _, _, _)
WriteBack(out, px, sorted_pixels, i) ==
    IF i < Len(px)
    THEN WriteBack([out EXCEPT ![At(px, i) + 1] = At(sorted_pixels, i)],
                   px, sorted_pixels, i + 1)
    ELSE out

\* the pixels of out at the indices px
Pick(out, px) == [k \in 1..Len(px) |-> At(out, px[k])]

\* sorts the gathered interval and writes it to the output
SortRun(a, out, px, rnd) ==
    IF Len(px) > 0
    THEN Once(Once(Pick(out, px),
                   LAMBDA l : sorted(l, a.key, a.discretize, a.reverse)),
              LAMBDA sorted_pixels :
                  WriteBack(out, px,
                            Once(sorted_pixels,
                                 LAMBDA l : sort_filter(l, a.mirror, a.splice,
                                                        a.splice_random, rnd)),
                            0))
    ELSE out

\* the path of sort_image
PathOf(a, sz) ==
    IF a.path = None
    THEN IF a.vertical THEN vertical_path(sz) ELSE horizontal_path(sz)
    ELSE PathByName(a.path, sz)

\* max_interval * progressive_amount, as a fraction
Progress(a) == <<a.max_interval * a.progressive_amount[1], a.progressive_amount[2]>>

\* the start of current_max_interval
StartInterval(a) ==
    IF a.progressive_amount[1] > 0
    THEN Progress(a)
    ELSE <<a.max_interval * a.progressive_amount[2], a.progressive_amount[2]>>

\* current_max_interval at the head of the interval loop
GrownInterval(a, cmi) ==
    IF a.progressive_amount[1] > 0
    THEN <<cmi[1] + Progress(a)[1], cmi[2]>>
    ELSE cmi

\* the values interval can take: randint(1, int(cmi) + 1) or cmi itself
Intervals(a, cmi) ==
    IF a.randomize /\ cmi[1] > 0
    THEN {<<n * cmi[2], cmi[2]>> : n \in 1..(cmi[1] \div cmi[2] + 1)}
    ELSE {cmi}

\* the values randrange(len(px)) can return in sort_filter
Draws(a, px) ==
    IF a.splice_random /\ Len(px) > 0 THEN 0..(Len(px) - 1) ELSE {0}

\* out_pixels = image in place of list(image): one list under two names
CallersListShared(img, out) == out

\* the caller's list after an assignment to an element of out, the list
\* that list(image) made: a new list, so the caller's list is as it was
CallersList(img, out) == img

sort_image_begin ==
    /\ pc = "call"
    /\ out_pixels' = image
    /\ edge_data' = IF args.edge_threshold > 0 /\ args.edge_data = NoneSeq
                    THEN edge_detect(image, size)
                    ELSE args.edge_data
    /\ path_iterator' = PathOf(args, size)
    /\ current_max_interval' = StartInterval(args)
    /\ pc' = "rows"
    /\ UNCHANGED <<callvars, filtervars, maskvars, pathvars, tilevars, row_iter, path_finished, interval,
                   px_indices, stop_idx>>

NextRow ==
    /\ pc = "rows"
    /\ path_iterator # <<>>
    /\ row_iter' = Head(path_iterator)
    /\ path_iterator' = Tail(path_iterator)
    /\ path_finished' = FALSE
    /\ pc' = "row"
    /\ UNCHANGED <<callvars, filtervars, maskvars, pathvars, tilevars, out_pixels, edge_data,
                   current_max_interval, interval, px_indices, stop_idx>>

SortInterval ==
    /\ pc = "row"
    /\ LET cmi == GrownInterval(args, current_max_interval)
       IN  \E iv \in Intervals(args, cmi) :
             LET g == Gather(args, image, edge_data, size[1], row_iter, 0, iv, <<>>)
             IN  \E rnd \in Draws(args, g.px_indices) :
                   /\ current_max_interval' = cmi
                   /\ interval' = iv
                   /\ px_indices' = g.px_indices
                   /\ stop_idx' = g.stop_idx
                   /\ row_iter' = g.row_iter
                   /\ path_finished' = g.path_finished
                   /\ out_pixels' = IF g.raised THEN out_pixels
                                    ELSE SortRun(args, out_pixels, g.px_indices, rnd)
                   /\ pc' = IF g.raised THEN "error"
                            ELSE IF g.path_finished THEN "rows" ELSE "row"
    /\ image' = CallersList(image, out_pixels')
    /\ UNCHANGED <<configvars, filtervars, maskvars, pathvars, tilevars, edge_data,
                   path_iterator>>

Return ==
    /\ pc = "rows"
    /\ path_iterator = <<>>
    /\ pc' = "done"
    /\ UNCHANGED <<callvars, sortvars, filtervars, maskvars, pathvars, tilevars>>

(***************************************************************************)
(* The calls of sort_image that are checked.  The arguments vary in groups *)
(* around the defaults: the ordering and the interval size, the boundary   *)
(* markers, and the rearrangement after the sort.                          *)
(***************************************************************************)
MaxInterval == 2

Fractions == {<<0, 1>>, <<1, 2>>, <<1, 1>>}

\* image masks, and edge data handed in by the caller, for an image of n pixels
Masks(n) == [1..n -> MaskPixels]

EdgeValues == {<<0, 0>>, <<2550000, 0>>}

\* the ordering: key, direction, orientation and discretization
OrderArgs ==
    {[DefaultArgs EXCEPT !.key = k, !.reverse = r, !.vertical = v] :
        k \in {None, "red", "sum"}, r \in BOOLEAN, v \in BOOLEAN}
    \cup
    {[DefaultArgs EXCEPT !.key = "red", !.reverse = r, !.discretize = 2] :
        r \in BOOLEAN}

\* the interval size
IntervalArgs ==
    {[DefaultArgs EXCEPT !.max_interval = m, !.randomize = z,
                         !.progressive_amount = p] :
        m \in 1..MaxInterval, z \in BOOLEAN, p \in {<<0, 1>>, <<1, 2>>}}

\* the boundary markers: an image mask, a brightness band, edge data
MarkerArgs(n) ==
    {[DefaultArgs EXCEPT !.key = "red", !.image_mask = im, !.max_interval = m] :
        im \in Masks(n), m \in {0, MaxInterval}}
    \cup
    {[DefaultArgs EXCEPT !.key = "red", !.image_threshold = t] :
        t \in {<<1, 2>>, <<2, 1>>}}
    \cup
    {[DefaultArgs EXCEPT !.key = "red", !.edge_threshold = 100, !.edge_data = e] :
        e \in {NoneSeq} \cup [1..n -> EdgeValues]}

\* the rearrangement after the sort
FilterArgs ==
    {[DefaultArgs EXCEPT !.key = "red", !.mirror = mi, !.splice = sp,
                         !.splice_random = sr] :
        mi \in BOOLEAN, sp \in Fractions, sr \in BOOLEAN}

\* the images for the boundary markers: two dark pixels and a bright one,
\* which alone is inside the brightness band
MarkerPixels == {<<1, 0, 0>>, <<3, 0, 0>>, <<2, 255, 0>>}

\* the image and the arguments of a call
Calls ==
    \/ /\ image \in Images(size)
       /\ args \in OrderArgs \cup IntervalArgs \cup FilterArgs
    \/ /\ image \in [1..(size[1] * size[2]) -> MarkerPixels]
       /\ args \in MarkerArgs(size[1] * size[2])

\* the values of the variables that a call has not set yet
IdleFilter ==
    /\ lst = <<>>
    /\ filtered = <<>>

IdleMask == sort_mask = <<>>

IdleCli == cli_args = [script |-> "", sortkey |-> "", path |-> ""]

\* no call of draw_line yet
IdleLine ==
    /\ line_starts = <<>>
    /\ line = [slope |-> <<0, 1>>, switch_xy |-> FALSE, slope_sgn |-> 0, dx |-> 0,
               dy |-> 0, start |-> <<0, 0>>, current_point |-> <<0, 0>>,
               error |-> <<-1, 1>>]

IdlePaths ==
    /\ path = ""
    /\ path_kwargs = [angle |-> "0", radius |-> 100]
    /\ path_rows = <<>>
    /\ distribution = [given |-> FALSE, ints |-> TRUE, weights |-> <<>>]
    /\ walk_weights = <<>>
    /\ start_points = <<>>
    /\ random_starts = 0
    /\ walk_pos = <<0, 0>>
    /\ walk_len = 0
    /\ yielded = <<>>
    /\ IdleLine

IdleTiles ==
    /\ tile_size = <<1, 1>>
    /\ tile_density = <<0, 1>>
    /\ randomize_tiles = FALSE
    /\ out_image = <<>>
    /\ tile_i = <<0, 0>>
    /\ cells = <<>>
    /\ tiles_completed = 0
    /\ tiles_sorted = <<>>
    /\ tile_stage = <<>>
    /\ tile_buffer = <<>>

IdleSort ==
    /\ out_pixels = <<>>
    /\ edge_data = NoneSeq
    /\ path_iterator = <<>>
    /\ row_iter = <<>>
    /\ path_finished = FALSE
    /\ current_max_interval = <<0, 1>>
    /\ interval = <<0, 1>>
    /\ px_indices = <<>>
    /\ stop_idx = -1

Init ==
    /\ pc = "call"
    /\ size \in Sizes
    /\ Calls
    /\ IdleSort
    /\ IdleFilter
    /\ IdleMask
    /\ IdleCli
    /\ IdlePaths
    /\ IdleTiles

Next == sort_image_begin \/ NextRow \/ SortInterval \/ Return

Spec == Init /\ [][Next]_vars

(***************************************************************************)
(* The calls of sort_filter that are checked: every list of at most MaxLen *)
(* pixels, with the splice at 0, at a quarter, a half, three quarters and  *)
(* at 1.                                                                   *)
(***************************************************************************)
MaxLen == 4

Splices == {<<0, 1>>, <<1, 4>>, <<1, 2>>, <<3, 4>>, <<1, 1>>}

Lists == UNION {[1..n -> Pixels] : n \in 0..MaxLen}

InitFilter ==
    /\ pc = "call_filter"
    /\ lst \in Lists
    /\ filtered = <<>>
    /\ size = <<1, 1>>
    /\ image = <<>>
    /\ args \in {[DefaultArgs EXCEPT !.mirror = mi, !.splice = sp, !.splice_random = sr] :
                    mi \in BOOLEAN, sp \in Splices, sr \in BOOLEAN}
    /\ IdleSort
    /\ IdleMask
    /\ IdleCli
    /\ IdlePaths
    /\ IdleTiles

sort_filter_call ==
    /\ pc = "call_filter"
    /\ \E rnd \in Draws(args, lst) :
         filtered' = sort_filter(lst, args.mirror, args.splice, args.splice_random, rnd)
    /\ pc' = "done"
    /\ UNCHANGED <<callvars, sortvars, maskvars, pathvars, tilevars, lst>>

NextFilter == sort_filter_call

SpecFilter == InitFilter /\ [][NextFilter]_vars

(***************************************************************************)
(* apply_sort_mask of the older script pixelsort.py.  Its out_pixels,      *)
(* pixel_iterator, path and px_indices are the variables out_pixels,       *)
(* path_iterator, row_iter and px_indices.  A mask value is a fraction.    *)
(***************************************************************************)
\* the outcomes of sort_mask[idx] == 1 or random() < sort_mask[idx], with
\* random() in [0, 1)
Flushes(m) ==
    IF m[1] = m[2] THEN {TRUE}
    ELSE IF m[1] > 0 /\ m[1] < m[2] THEN BOOLEAN
    ELSE {m[1] > m[2]}

apply_sort_mask_begin ==
    /\ pc = "call_mask"
    /\ out_pixels' = image
    /\ path_iterator' = PathOf(args, size)
    /\ pc' = "mask_rows"
    /\ UNCHANGED <<callvars, filtervars, maskvars, pathvars, tilevars, edge_data, row_iter,
                   path_finished, current_max_interval, interval, px_indices,
                   stop_idx>>

MaskNextRow ==
    /\ pc = "mask_rows"
    /\ path_iterator # <<>>
    /\ row_iter' = Head(path_iterator)
    /\ path_iterator' = Tail(path_iterator)
    /\ px_indices' = <<>>
    /\ pc' = IF Head(path_iterator) = <<>> THEN "mask_rows" ELSE "mask_row"
    /\ UNCHANGED <<callvars, filtervars, maskvars, pathvars, tilevars, out_pixels, edge_data,
                   path_finished, current_max_interval, interval, stop_idx>>

\* one pass of the loop over the coordinates of a row
ApplyPixel ==
    /\ pc = "mask_row"
    /\ row_iter # <<>>
    /\ LET idx == coords_to_index(Head(row_iter), size[1])
           px  == Append(px_indices, idx)
       IN  \E flush \in Flushes(At(sort_mask, idx)) :
             /\ out_pixels' =
                  IF flush
                  THEN WriteBack(out_pixels, px,
                                 sorted(Pick(out_pixels, px), args.key,
                                        args.discretize, args.reverse),
                                 0)
                  ELSE out_pixels
             /\ px_indices' = IF flush THEN <<>> ELSE px
    /\ row_iter' = Tail(row_iter)
    /\ pc' = IF Tail(row_iter) = <<>> THEN "mask_rows" ELSE "mask_row"
    /\ UNCHANGED <<callvars, filtervars, maskvars, pathvars, tilevars, edge_data,
                   path_iterator, path_finished, current_max_interval, interval,
                   stop_idx>>

MaskReturn ==
    /\ pc = "mask_rows"
    /\ path_iterator = <<>>
    /\ pc' = "mask_done"
    /\ UNCHANGED <<callvars, sortvars, filtervars, maskvars, pathvars, tilevars>>

\* the calls of apply_sort_mask that are checked: masks of 0 and 1, as
\* create_sort_mask makes them, and masks of 0 and 1/2
MaskValues == {<<0, 1>>, <<1, 2>>, <<1, 1>>}

SortMasks(n) == [1..n -> {<<0, 1>>, <<1, 1>>}] \cup [1..n -> {<<0, 1>>, <<1, 2>>}]

MaskArgs == {[DefaultArgs EXCEPT !.key = "red", !.vertical = v] : v \in BOOLEAN}

InitMask ==
    /\ pc = "call_mask"
    /\ size \in Sizes
    /\ image \in Images(size)
    /\ sort_mask \in SortMasks(size[1] * size[2])
    /\ args \in MaskArgs
    /\ IdleSort
    /\ IdleFilter
    /\ IdleTiles
    /\ IdleCli
    /\ IdlePaths

NextMask == apply_sort_mask_begin \/ MaskNextRow \/ ApplyPixel \/ MaskReturn

SpecMask == InitMask /\ [][NextMask]_vars

(***************************************************************************)
(* sort_image as a function, for the calls that draw no random number      *)
(* (randomize and splice_random off): the loops of sort_image over the     *)
(* rows of the path and over the intervals of a row.                       *)
(***************************************************************************)
\* the while loop over the intervals of one row
RECURSIVE SortRow(_, _, _, _, _, _, _)
SortRow(a, img, ed, width, row, cmi, out) ==
    LET c == GrownInterval(a, cmi)
        g == Gather(a, img, ed, width, row, 0, c, <<>>)
    IN  IF g.raised
        THEN [out_pixels |-> out, current_max_interval |-> c, raised |-> TRUE]
        ELSE IF g.path_finished
        THEN [out_pixels |-> SortRun(a, out, g.px_indices, 0),
              current_max_interval |-> c, raised |-> FALSE]
        ELSE SortRow(a, img, ed, width, g.row_iter, c,
                     SortRun(a, out, g.px_indices, 0))

\* the for loop over the rows of the path
RECURSIVE SortRows(_, _, _, _, _, _, _)
SortRows(a, img, ed, width, rows, cmi, out) ==
    IF rows = <<>>
    THEN [out_pixels |-> out, raised |-> FALSE]
    ELSE LET r == SortRow(a, img, ed, width, Head(rows), cmi, out)
         IN  IF r.raised
             THEN [out_pixels |-> r.out_pixels, raised |-> TRUE]
             ELSE SortRows(a, img, ed, width, Tail(rows), r.current_max_interval,
                           r.out_pixels)

\* sort_image(img, sz, **a): the list returned, or raised when the edge test
\* meets a pixel without edge value
sort_image(img, sz, a) ==
    SortRows(a, img,
             IF a.edge_threshold > 0 /\ a.edge_data = NoneSeq
             THEN edge_detect(img, sz) ELSE a.edge_data,
             sz[1], PathOf(a, sz), StartInterval(a), img)

(***************************************************************************)
(* The accumulator of sort_image_tiles.  i and 1.0 / tile_density are IEEE *)
(* doubles.  A double v below 16 that is a multiple of 2^-52 is the pair   *)
(* <<hi, lo>> with v * 2^52 = hi * 2^26 + lo and 0 <= lo < 2^26.  Doubles  *)
(* in [1, 2) are 2^-52 apart, in [2, 4) 2^-51, in [4, 8) 2^-50 and in      *)
(* [8, 16) 2^-49; every multiple of 2^-52 below 2 is a double.  The result *)
(* of an operation is the exact result rounded to the nearest double, a    *)
(* tie to the one with the even fraction.                                  *)
(***************************************************************************)
Limb == 8192 * 8192

\* the distance, in units of 2^-52, of the doubles at hi * 2^-26
Ulp(hi) ==
    IF hi < 2 * Limb THEN 1
    ELSE IF hi < 4 * Limb THEN 2
    ELSE IF hi < 8 * Limb THEN 4
    ELSE 8

\* the double nearest to (hi * 2^26 + lo + num / den) * 2^-52, 0 <= num < den
RoundDouble(hi, lo, num, den) ==
    LET s == Ulp(hi)
        q == lo \div s
        t == lo % s
        up == \/ 2 * (t * den + num) > s * den
              \/ 2 * (t * den + num) = s * den /\ q % 2 = 1
        l == (IF up THEN q + 1 ELSE q) * s
    IN  IF l = Limb THEN <<hi + 1, 0>> ELSE <<hi, l>>

\* v < w
DoubleLess(v, w) == v[1] < w[1] \/ (v[1] = w[1] /\ v[2] < w[2])

\* i += 1
DoubleAddOne(v) == RoundDouble(v[1] + Limb, v[2], 0, 1)

\* v - w for v >= w
DoubleSub(v, w) ==
    IF v[2] >= w[2]
    THEN RoundDouble(v[1] - w[1], v[2] - w[2], 0, 1)
    ELSE RoundDouble(v[1] - w[1] - 1, v[2] + Limb - w[2], 0, 1)

\* 1.0 / d for a density d = <<a, b>>, the double a / b with 0 < a <= b and
\* b a power of two up to 8: the quotient b * 2^52 / a by long division
Reciprocal(d) ==
    LET h   == d[2] * Limb
        qhi == h \div d[1]
        rhi == h % d[1]
        qlo == (rhi * Limb) \div d[1]
        r   == (rhi * Limb) % d[1]
    IN  RoundDouble(qhi, qlo, r, d[1])

(***************************************************************************)
(* sort_image_tiles of pixelsorter/sort.py                                 *)
(***************************************************************************)
\* the tile as (tile_pixels, tile_size)
get_tile_from_image(img, sz, top_left_corner, tsz) ==
    LET tile_x == Min(sz[1] - top_left_corner[1], tsz[1])
        tile_y == Min(sz[2] - top_left_corner[2], tsz[2])
    IN  [tile |-> [k \in 1..(tile_x * tile_y) |->
                     At(img, coords_to_index(
                                <<((k - 1) % tile_x) + top_left_corner[1],
                                  ((k - 1) \div tile_x) + top_left_corner[2]>>,
                                sz[1]))],
         size |-> <<tile_x, tile_y>>]

\* the loops of apply_tile_to_image from the pixel n = y * tile_size[0] + x
\* of the tile on
RECURSIVE ApplyTile(_, _, _, _, _, _)
ApplyTile(img, sz, tile, tsz, tile_corner, n) ==
    IF n >= tsz[1] * tsz[2]
    THEN img
    ELSE LET x == n % tsz[1]
             y == n \div tsz[1]
             img_coords == <<x + tile_corner[1], y + tile_corner[2]>>
         IN  ApplyTile([img EXCEPT ![coords_to_index(img_coords, sz[1]) + 1] =
                                        At(tile, coords_to_index(<<x, y>>, tsz[1]))],
                       sz, tile, tsz, tile_corner, n + 1)

\* a copy that ignores the column of the corner
apply_tile_to_image_left(img, sz, tile, tsz, tile_corner) ==
    ApplyTile(img, sz, tile, tsz, <<0, tile_corner[2]>>, 0)

\* a copy that ignores the row of the corner
apply_tile_to_image_top(img, sz, tile, tsz, tile_corner) ==
    ApplyTile(img, sz, tile, tsz, <<tile_corner[1], 0>>, 0)

apply_tile_to_image(img, sz, tile, tsz, tile_corner) ==
    ApplyTile(img, sz, tile, tsz, tile_corner, 0)

\* the corners (x, y) of the two loops, in the order they are visited
TileCorners(sz, tsz) ==
    LET nx == (sz[1] + tsz[1] - 1) \div tsz[1]
        ny == (sz[2] + tsz[2] - 1) \div tsz[2]
    IN  [k \in 1..(nx * ny) |-> <<((k - 1) % nx) * tsz[1], ((k - 1) \div nx) * tsz[2]>>]

\* the outcomes of r >= tile_density for r = random() in [0, 1)
RandomSkips(d) ==
    IF d[1] = 0 THEN {TRUE}
    ELSE IF d[1] >= d[2] THEN {FALSE}
    ELSE BOOLEAN

\* a test that also skips when i = 1.0 / tile_density
AccumulatorSkipsEqual(d, v) == d[1] = 0 \/ ~DoubleLess(Reciprocal(d), v)

\* tile_density == 0 or i < 1.0 / tile_density
AccumulatorSkips(d, v) == d[1] = 0 \/ DoubleLess(v, Reciprocal(d))

sort_image_tiles_begin ==
    /\ pc = "call_tiles"
    /\ out_image' = image
    /\ tile_i' = <<0, 0>>
    /\ tiles_completed' = 0
    /\ cells' = TileCorners(size, tile_size)
    /\ pc' = "tiles"
    /\ UNCHANGED <<callvars, sortvars, filtervars, maskvars, pathvars, tile_size,
                   tile_density, randomize_tiles, tiles_sorted, tile_stage,
                   tile_buffer>>

\* one pass of the loops over the tiles
TileStep ==
    /\ pc = "tiles"
    /\ cells # <<>>
    /\ LET corner == Head(cells)
           i1 == DoubleAddOne(tile_i)
       IN  \E skips \in (IF randomize_tiles THEN RandomSkips(tile_density)
                         ELSE {AccumulatorSkips(tile_density, i1)}) :
             LET t == get_tile_from_image(image, size, corner, tile_size)
                 s == sort_image(t.tile, t.size, args)
             IN  /\ tile_i' = IF randomize_tiles \/ skips THEN i1
                              ELSE DoubleSub(i1, Reciprocal(tile_density))
                 /\ tiles_sorted' = IF skips THEN tiles_sorted
                                    ELSE Append(tiles_sorted, corner)
                 /\ out_image' =
                      IF skips \/ s.raised THEN out_image
                      ELSE apply_tile_to_image(out_image, size, s.out_pixels,
                                               t.size, corner)
                 /\ pc' = IF ~skips /\ s.raised THEN "error" ELSE "tiles"
    /\ tiles_completed' = tiles_completed + 1
    /\ cells' = Tail(cells)
    /\ image' = CallersList(image, out_image')
    /\ UNCHANGED <<configvars, sortvars, filtervars, maskvars, pathvars, tile_size,
                   tile_density, randomize_tiles, tile_stage, tile_buffer>>

TilesReturn ==
    /\ pc = "tiles"
    /\ cells = <<>>
    /\ pc' = "tiles_done"
    /\ UNCHANGED <<callvars, sortvars, filtervars, maskvars, pathvars, tilevars>>

(***************************************************************************)
(* The calls of sort_image_tiles that are checked: small images with every *)
(* tile size up to MaxTile and the tile that is the whole image, and       *)
(* strips of up to MaxCells tiles, one pixel wide and two high, with the   *)
(* density in eighths.                                                     *)
(***************************************************************************)
MaxTile == 2

MaxCells == 8

TilePixels == {<<1, 0, 0>>, <<2, 0, 0>>, <<3, 0, 0>>}

TileSizes(sz) == ((1..MaxTile) \X (1..MaxTile)) \cup {sz}

TileArgs ==
    {[DefaultArgs EXCEPT !.key = k, !.vertical = v] :
        k \in {None, "red"}, v \in BOOLEAN}
    \cup
    {[DefaultArgs EXCEPT !.key = "red", !.max_interval = 1, !.progressive_amount = p] :
        p \in {<<0, 1>>, <<1, 2>>}}

\* every pixel of the upper row above a pixel of smaller red
StripImage(n) == [k \in 1..(2 * n) |-> IF k <= n THEN <<2, 0, 0>> ELSE <<1, 0, 0>>]

Densities == {<<a, 8>> : a \in 0..8}

SmallTiles ==
    /\ size \in Sizes
    /\ image \in [1..(size[1] * size[2]) -> TilePixels]
    /\ tile_size \in TileSizes(size)
    /\ tile_density \in {<<0, 8>>, <<4, 8>>, <<8, 8>>}
    /\ randomize_tiles \in BOOLEAN
    /\ args \in TileArgs

Strips ==
    /\ size \in {<<n, 2>> : n \in 1..MaxCells}
    /\ image = StripImage(size[1])
    /\ tile_size = <<1, 2>>
    /\ tile_density \in Densities
    /\ randomize_tiles = FALSE
    /\ args = [DefaultArgs EXCEPT !.key = "red", !.vertical = TRUE]

InitTiles ==
    /\ pc = "call_tiles"
    /\ SmallTiles \/ Strips
    /\ out_image = <<>>
    /\ tile_i = <<0, 0>>
    /\ cells = <<>>
    /\ tiles_completed = 0
    /\ tiles_sorted = <<>>
    /\ tile_stage = <<>>
    /\ tile_buffer = <<>>
    /\ IdleSort
    /\ IdleFilter
    /\ IdleMask
    /\ IdleCli
    /\ IdlePaths

NextTiles == sort_image_tiles_begin \/ TileStep \/ TilesReturn

SpecTiles == InitTiles /\ [][NextTiles]_vars

(***************************************************************************)
(* The steps of sort_image_tiles on a tile (extract the tile from the      *)
(* input, sort it, write it back to the output) taken for a fixed set of   *)
(* included tiles in any order, the steps of different tiles interleaved.  *)
(***************************************************************************)
\* the set of the elements of a sequence
Range(q) == {q[k] : k \in 1..Len(q)}

\* tile, current_tile_size = get_tile_from_image(image, size, (x, y), tile_size)
ExtractTile ==
    /\ pc = "any_order"
    /\ \E c \in DOMAIN tile_stage :
         /\ tile_stage[c] = "todo"
         /\ tile_buffer' = [tile_buffer EXCEPT
                              ![c] = get_tile_from_image(image, size, c, tile_size).tile]
         /\ tile_stage' = [tile_stage EXCEPT ![c] = "extracted"]
    /\ UNCHANGED <<pc, callvars, sortvars, filtervars, maskvars, pathvars, tile_size,
                   tile_density, randomize_tiles, out_image, tile_i, cells,
                   tiles_completed, tiles_sorted>>

\* sorted_tile = sort_image(tile, current_tile_size, **sorting_args)
SortTile ==
    /\ pc = "any_order"
    /\ \E c \in DOMAIN tile_stage :
         /\ tile_stage[c] = "extracted"
         /\ tile_buffer' = [tile_buffer EXCEPT
                              ![c] = sort_image(tile_buffer[c],
                                                get_tile_from_image(image, size, c,
                                                                    tile_size).size,
                                                args).out_pixels]
         /\ tile_stage' = [tile_stage EXCEPT ![c] = "sorted"]
    /\ UNCHANGED <<pc, callvars, sortvars, filtervars, maskvars, pathvars, tile_size,
                   tile_density, randomize_tiles, out_image, tile_i, cells,
                   tiles_completed, tiles_sorted>>

\* apply_tile_to_image(out_image, size, sorted_tile, current_tile_size, (x, y))
WriteTile ==
    /\ pc = "any_order"
    /\ \E c \in DOMAIN tile_stage :
         /\ tile_stage[c] = "sorted"
         /\ out_image' = apply_tile_to_image(out_image, size, tile_buffer[c],
                                             get_tile_from_image(image, size, c,
                                                                 tile_size).size,
                                             c)
         /\ tile_stage' = [tile_stage EXCEPT ![c] = "written"]
    /\ image' = CallersList(image, out_image')
    /\ UNCHANGED <<pc, configvars, sortvars, filtervars, maskvars, pathvars, tile_size,
                   tile_density, randomize_tiles, tile_i, cells, tiles_completed,
                   tiles_sorted, tile_buffer>>

\* return out_image, when every included tile is written
AnyOrderReturn ==
    /\ pc = "any_order"
    /\ \A c \in DOMAIN tile_stage : tile_stage[c] \in {"excluded", "written"}
    /\ pc' = "any_done"
    /\ UNCHANGED <<callvars, sortvars, filtervars, maskvars, pathvars, tilevars>>

\* the calls that are checked: images of two reds, every set of included
\* tiles, out_image already the copy of the input
AnyOrderPixels == {<<1, 0, 0>>, <<2, 0, 0>>}

InitAnyOrder ==
    /\ pc = "any_order"
    /\ size \in Sizes
    /\ image \in [1..(size[1] * size[2]) -> AnyOrderPixels]
    /\ tile_size \in (1..MaxTile) \X (1..MaxTile)
    /\ args \in {[DefaultArgs EXCEPT !.key = "red", !.vertical = v] : v \in BOOLEAN}
    /\ tile_stage \in [Range(TileCorners(size, tile_size)) -> {"todo", "excluded"}]
    /\ tile_buffer = [c \in Range(TileCorners(size, tile_size)) |-> <<>>]
    /\ out_image = image
    /\ tile_density = <<0, 1>>
    /\ randomize_tiles = FALSE
    /\ tile_i = <<0, 0>>
    /\ cells = <<>>
    /\ tiles_completed = 0
    /\ tiles_sorted = <<>>
    /\ IdleSort
    /\ IdleFilter
    /\ IdleMask
    /\ IdleCli
    /\ IdlePaths

NextAnyOrder == ExtractTile \/ SortTile \/ WriteTile \/ AnyOrderReturn

SpecAnyOrder == InitAnyOrder /\ [][NextAnyOrder]_vars

(***************************************************************************)
(* The command line of the two scripts, pixelsorter/pixelsort.py and the   *)
(* older pixelsort.py: the look-up of the names given with --sortkey and   *)
(* --path, then the call of sort_image.  The other options are at their    *)
(* defaults, which are the defaults of sort_image.                         *)
(***************************************************************************)
\* str.lower() on the names that are given
Lower(name) ==
    CASE name = "RED" -> "red"
      [] name = "Vertical" -> "vertical"
      [] OTHER -> name

\* PIXEL_KEY_DICT.get(sortkey.lower(), None)
KeyLookup(sortkey) ==
    IF Lower(sortkey) \in PIXEL_KEY_NAMES THEN Lower(sortkey) ELSE None

\* PIXEL_PATH_DICT.get(path_name, None) for the lowered name
PathLookup(path_name) ==
    IF Lower(path_name) \in PIXEL_PATH_NAMES THEN Lower(path_name) ELSE None

\* parse_path_args of pixelsorter/pixelsort.py raises: a name is given, the
\* look-up gives None, and None has no attribute __code__
ParsePathRaises(c) ==
    /\ c.script = "pixelsorter/pixelsort.py"
    /\ c.path # ""
    /\ PathLookup(c.path) = None

\* from the command line to the arguments of sort_image
parse_cli ==
    /\ pc = "cli"
    /\ args' = IF ParsePathRaises(cli_args) THEN args
               ELSE [DefaultArgs EXCEPT !.key = KeyLookup(cli_args.sortkey),
                                        !.path = PathLookup(cli_args.path)]
    /\ pc' = IF ParsePathRaises(cli_args) THEN "error" ELSE "call"
    /\ UNCHANGED <<image, size, cli_args, sortvars, filtervars, maskvars, pathvars, tilevars>>

\* the command lines that are checked: no name, a name of the table, a name
\* of the table in capitals, and a name that is in no table
SortkeyOptions == {"", "red", "RED", "sum", "redd"}

PathOptions == {"", "vertical", "Vertical", "diagonl"}

InitCli ==
    /\ pc = "cli"
    /\ size \in Sizes
    /\ image \in Images(size)
    /\ args = DefaultArgs
    /\ cli_args \in [script : {"pixelsorter/pixelsort.py", "pixelsort.py"},
                     sortkey : SortkeyOptions, path : PathOptions]
    /\ IdleSort
    /\ IdleFilter
    /\ IdleMask
    /\ IdleTiles
    /\ IdlePaths

NextCli == parse_cli \/ Next

SpecCli == InitCli /\ [][NextCli]_vars

(***************************************************************************)
(* pixelpaths.py, random_walk_path.  The weights are doubles.  A double    *)
(* between 1/16 and 4 is the pair <<hi, lo>> of the number                 *)
(* hi * 2^27 + lo in units of 2^-56, with 0 <= lo < 2^27; a negative       *)
(* double has both limbs negated.                                          *)
(***************************************************************************)
WalkLimb == 16384 * 8192

WalkOne == <<4 * WalkLimb, 0>>

\* the distance between two doubles next to hi * 2^27, in units of 2^-56
WalkUlp(hi) ==
    CASE hi >= 8 * WalkLimb -> 32
      [] hi >= 4 * WalkLimb /\ hi < 8 * WalkLimb -> 16
      [] hi >= 2 * WalkLimb /\ hi < 4 * WalkLimb -> 8
      [] hi >= WalkLimb /\ hi < 2 * WalkLimb -> 4
      [] 2 * hi >= WalkLimb /\ hi < WalkLimb -> 2
      [] 4 * hi >= WalkLimb /\ 2 * hi < WalkLimb -> 1

\* the double nearest to hi * 2^27 + lo + num / den, ties to even
RoundWalk(hi, lo, num, den) ==
    IF hi = 0 /\ lo = 0 /\ num = 0 THEN <<0, 0>>
    ELSE LET st == WalkUlp(hi)
             low == lo % st
             down == lo - low
             twice == 2 * (low * den + num)
             up == IF down + st = WalkLimb THEN <<hi + 1, 0>>
                   ELSE <<hi, down + st>>
         IN  IF twice < st * den THEN <<hi, down>>
             ELSE IF twice > st * den THEN up
             ELSE IF (down \div st) % 2 = 0 THEN <<hi, down>>
             ELSE up

\* p / float(s) for the integers p >= 0 and s > 0, by long division
Quotient(p, s) ==
    LET r0 == p % s
        a == (r0 * 32768) \div s
        r1 == (r0 * 32768) % s
        b == (r1 * 16384) \div s
        r2 == (r1 * 16384) % s
        c == (r2 * 16384) \div s
        r3 == (r2 * 16384) % s
        d == (r3 * 8192) \div s
        r4 == (r3 * 8192) % s
    IN  RoundWalk((p \div s) * 4 * WalkLimb + a * 16384 + b, c * 8192 + d, r4, s)

\* p / float(s) for the integers p and s > 0
SignedQuotient(p, s) ==
    IF p >= 0 THEN Quotient(p, s)
    ELSE <<0 - Quotient(0 - p, s)[1], 0 - Quotient(0 - p, s)[2]>>

\* x + y for two doubles that are not negative
FloatAdd(x, y) ==
    IF x[2] + y[2] >= WalkLimb
    THEN RoundWalk(x[1] + y[1] + 1, x[2] + y[2] - WalkLimb, 0, 1)
    ELSE RoundWalk(x[1] + y[1], x[2] + y[2], 0, 1)

\* x / s for doubles: only the division by 1.0 occurs, which is exact
FloatDivide(x, s) == CASE s = WalkOne -> x

\* 1 / 3.0
Third == Quotient(1, 3)

neighbors ==
    << <<-1, -1>>, <<-1, 0>>, <<-1, 1>>, <<0, -1>>, <<0, 1>>, <<1, -1>>,
       <<1, 0>>, <<1, 1>> >>

\* the dictionary {n: 0.125 for n in neighbors}
Uniform == [n \in Range(neighbors) |-> <<WalkLimb \div 2, 0>>]

\* an omitted neighbour gets the weight 1
FilledOne(d, zero) ==
    [n \in (DOMAIN d) \cup Range(neighbors) |-> IF n \in DOMAIN d THEN d[n] ELSE 1]

\* the dictionary after "if n not in distribution: distribution[n] = 0"
Filled(d, zero) ==
    [n \in (DOMAIN d) \cup Range(neighbors) |-> IF n \in DOMAIN d THEN d[n] ELSE zero]

\* sum(distribution[n] for n in neighbors) of integers
RECURSIVE IntSum(_, _)
IntSum(d, k) == IF k = 0 THEN 0 ELSE IntSum(d, k - 1) + d[neighbors[k]]

\* sum(distribution[n] for n in neighbors) of doubles, from the left
RECURSIVE FloatSum(_, _)
FloatSum(d, k) ==
    IF k = 0 THEN <<0, 0>> ELSE FloatAdd(FloatSum(d, k - 1), d[neighbors[k]])

\* the parameter after the loop that fills it
FilledDistribution(dist) ==
    IF dist.ints THEN Filled(dist.weights, 0) ELSE Filled(dist.weights, <<0, 0>>)

\* neighbor_sum <= 0
NormalizeRaises(dist) ==
    /\ dist.given
    /\ IF dist.ints THEN IntSum(FilledDistribution(dist), 8) <= 0
       ELSE FloatSum(FilledDistribution(dist), 8) = <<0, 0>>

\* {n: p / float(neighbor_sum) for n, p in distribution.items()}
Normalized(dist) ==
    LET d == FilledDistribution(dist)
    IN  IF dist.ints
        THEN [n \in DOMAIN d |-> SignedQuotient(d[n], IntSum(d, 8))]
        ELSE [n \in DOMAIN d |-> FloatDivide(d[n], FloatSum(d, 8))]

\* the values weighted_random_choice can return: r is in [0, sum), and an
\* item is returned when its weight is above what is left of r, which is
\* never negative
Choices(w) == {n \in DOMAIN w : w[n][1] > 0 \/ w[n][2] > 0}

\* the number of start points drawn at random
RandomStarts == 10

\* random_walk_path up to its first yield
Normalize ==
    /\ pc = "call_walk"
    /\ IF NormalizeRaises(distribution)
       THEN /\ pc' = "error"
            /\ UNCHANGED <<walk_weights, random_starts>>
       ELSE /\ pc' = "walk_rows"
            /\ walk_weights' = IF distribution.given THEN Normalized(distribution)
                               ELSE Uniform
            /\ random_starts' = IF start_points = NoneSeq THEN RandomStarts ELSE 0
    /\ UNCHANGED <<callvars, sortvars, filtervars, maskvars, tilevars, path,
                   path_kwargs, path_rows, distribution, start_points, walk_pos, walk_len,
                   yielded, line_starts, line>>

\* (int(random() * width), int(random() * height))
RandomPoints == (0..(size[1] - 1)) \X (0..(size[2] - 1))

\* for x0, y0 in start_points: yield random_walk_iter((x0, y0)), where the
\* random start points are drawn as they are used
NextWalkRow ==
    /\ pc = "walk_rows"
    /\ IF random_starts > 0
       THEN /\ walk_pos' \in RandomPoints
            /\ random_starts' = random_starts - 1
            /\ pc' = "walk_iter"
            /\ UNCHANGED start_points
       ELSE IF start_points # <<>>
       THEN /\ walk_pos' = Head(start_points)
            /\ start_points' = Tail(start_points)
            /\ pc' = "walk_iter"
            /\ UNCHANGED random_starts
       ELSE /\ pc' = "done"
            /\ UNCHANGED <<walk_pos, start_points, random_starts>>
    /\ walk_len' = 0
    /\ UNCHANGED <<callvars, sortvars, filtervars, maskvars, tilevars, path,
                   path_kwargs, path_rows, distribution, walk_weights, yielded, line_starts,
                   line>>

\* x < 0 or x >= width or y < 0 or y >= height
Outside(p) == p[1] < 0 \/ p[1] >= size[1] \/ p[2] < 0 \/ p[2] >= size[2]

\* the longest row that is read to its end
MaxWalk == 3

\* one turn of the loop of random_walk_iter
WalkStep ==
    /\ pc = "walk_iter"
    /\ walk_len < MaxWalk
    /\ \E n \in Choices(walk_weights) :
         /\ walk_pos' = <<walk_pos[1] + n[1], walk_pos[2] + n[2]>>
         /\ IF Outside(walk_pos')
            THEN /\ pc' = "walk_rows"
                 /\ UNCHANGED <<yielded, walk_len>>
            ELSE /\ pc' = "walk_iter"
                 /\ yielded' = walk_pos'
                 /\ walk_len' = walk_len + 1
    /\ UNCHANGED <<callvars, sortvars, filtervars, maskvars, tilevars, path,
                   path_kwargs, path_rows, distribution, walk_weights, start_points,
                   random_starts, line_starts, line>>

\* a row of MaxWalk coordinates is not read further
LeaveRow ==
    /\ pc = "walk_iter"
    /\ walk_len = MaxWalk
    /\ pc' = "walk_rows"
    /\ UNCHANGED <<callvars, sortvars, filtervars, maskvars, tilevars, pathvars>>

\* the weights of the callers
Weights == -1..3

\* the neighbours the callers give a weight to
WalkKeys == {<<-1, 0>>, <<1, 0>>, <<1, 1>>}

Dictionaries == UNION {[d -> Weights] : d \in SUBSET WalkKeys}

\* the calls of random_walk_path by a caller, and through
\* horizontal_random_walk and vertical_random_walk
WalkCalls ==
    \/ /\ path = "random-walk"
       /\ distribution \in
            {[given |-> FALSE, ints |-> TRUE, weights |-> <<>>]}
            \cup {[given |-> TRUE, ints |-> TRUE, weights |-> d] : d \in Dictionaries}
       /\ start_points \in {NoneSeq, << <<0, 0>> >>, << <<-1, 0>>, <<0, size[2]>> >>}
    \/ /\ path = "random-walk-horizontal"
       /\ distribution =
            [given |-> TRUE, ints |-> FALSE,
             weights |-> [n \in {<<1, -1>>, <<1, 0>>, <<1, 1>>} |-> Third]]
       /\ start_points = [k \in 1..size[2] |-> <<0, k - 1>>]
    \/ /\ path = "random-walk-vertical"
       /\ distribution =
            [given |-> TRUE, ints |-> FALSE,
             weights |-> [n \in {<<-1, 1>>, <<0, 1>>, <<1, 1>>} |-> Third]]
       /\ start_points = [k \in 1..size[1] |-> <<k - 1, 0>>]

InitWalk ==
    /\ pc = "call_walk"
    /\ size \in Sizes
    /\ image = <<>>
    /\ args = DefaultArgs
    /\ WalkCalls
    /\ path_kwargs = [angle |-> "0", radius |-> 100]
    /\ path_rows = <<>>
    /\ walk_weights = <<>>
    /\ random_starts = 0
    /\ walk_pos = <<0, 0>>
    /\ walk_len = 0
    /\ yielded = <<>>
    /\ IdleLine
    /\ IdleSort
    /\ IdleFilter
    /\ IdleMask
    /\ IdleCli
    /\ IdleTiles

NextWalk == Normalize \/ NextWalkRow \/ WalkStep \/ LeaveRow

SpecWalk == InitWalk /\ [][NextWalk]_vars

(***************************************************************************)
(* pixelpaths.py, path_to_list: the rows of a path, each read to its end   *)
(* before the next is asked for.                                           *)
(***************************************************************************)
\* the longest side of an image
MaxSide == 5

PathSizes == (1..MaxSide) \X (1..MaxSide)

PathNames == {"horizontal", "vertical", "diagonal", "diagonal-single", "concentric"}

\* in_bounds of util.py
in_bounds(min_b, max_b, point) ==
    /\ ~(point[1] >= max_b[1] \/ point[1] < min_b[1])
    /\ ~(point[2] >= max_b[2] \/ point[2] < min_b[2])

\* sign of util.py
sign(x) == IF x < 0 THEN -1 ELSE IF x > 0 THEN 1 ELSE 0

RECURSIVE ConcatFrom(_, _)
ConcatFrom(lists, k) ==
    IF k > Len(lists) THEN <<>> ELSE lists[k] \o ConcatFrom(lists, k + 1)

\* the lists of a list, joined
Concat(lists) == Once(lists, LAMBDA ls : ConcatFrom(ls, 1))

\* the loop of bresenham_circle_octant
RECURSIVE OctantLoop(_, _, _, _)
OctantLoop(x, y, r2, coords) ==
    IF x >= y
    THEN IF Abs((x - 1) * (x - 1) + (y + 1) * (y + 1) - r2)
              < Abs(x * x + (y + 1) * (y + 1) - r2)
         THEN OctantLoop(x - 1, y + 1, r2, Append(coords, <<x, y>>))
         ELSE OctantLoop(x, y + 1, r2, Append(coords, <<x, y>>))
    ELSE coords

\* the last lines of bresenham_circle_octant: a point on the line x = y
OctantEnd(coords) ==
    LET last == coords[Len(coords)]
    IN  IF last[1] # last[2] THEN Append(coords, <<last[1], last[1]>>) ELSE coords

bresenham_circle_octant(radius) ==
    Once(OctantLoop(radius, 0, radius * radius, <<>>), OctantEnd)

\* the octant of the circle of radius alone, one pixel thick
FirstOctantThin(c_in, c_out) == c_in

\* for x, y in c_in: for x1 in range(x, c_out[y][0]): coords.append((x1, y))
FirstOctant(c_in, c_out) ==
    Concat([k \in 1..Len(c_in) |->
              LET xs == range(c_in[k][1], c_out[c_in[k][2] + 1][1], 1)
              IN  [j \in 1..Len(xs) |-> <<xs[j], c_in[k][2]>>]])

\* coords.extend([(y, x) for x, y in reversed(coords)])
NextOctant(coords) ==
    coords \o [k \in 1..Len(coords) |->
                 <<coords[Len(coords) + 1 - k][2], coords[Len(coords) + 1 - k][1]>>]

\* coords.extend([(-y, x) for x, y in coords])
NextQuadrant(coords) ==
    coords \o [k \in 1..Len(coords) |-> <<0 - coords[k][2], coords[k][1]>>]

\* coords.extend([(-x, -y) for x, y in coords])
NextHalf(coords) ==
    coords \o [k \in 1..Len(coords) |-> <<0 - coords[k][1], 0 - coords[k][2]>>]

\* the coordinates of concentric_circle about its center, before the test
\* of in_bounds
CircleCoords(center, radius) ==
    Once(bresenham_circle_octant(radius + 1), LAMBDA c_out :
    Once(bresenham_circle_octant(radius), LAMBDA c_in :
    Once(FirstOctant(c_in, c_out), LAMBDA octant :
    Once(NextOctant(octant), LAMBDA quadrant :
    Once(NextQuadrant(quadrant), LAMBDA half :
    Once(NextHalf(half), LAMBDA coords :
        [k \in 1..Len(coords) |->
            <<coords[k][1] + center[1], coords[k][2] + center[2]>>]))))))

\* concentric_circle that yields the coordinates outside the image too
concentric_circle_unclipped(center, radius, sz) == CircleCoords(center, radius)

\* concentric_circle(center, radius, size=size)
concentric_circle(center, radius, sz) ==
    LET Inside(point) == in_bounds(<<0, 0>>, sz, point)
    IN  Once(CircleCoords(center, radius), LAMBDA c : SelectSeq(c, Inside))

\* for r in range(radius): yield concentric_circle(center, r, size=size)
fill_concentric_circles(sz, center, radius) ==
    [k \in 1..radius |-> concentric_circle(center, k - 1, sz)]

\* int(sqrt(2) * m), which is also int(2 * m / sqrt(2))
Sqrt2Times(m) ==
    CHOOSE k \in 0..(2 * m) : k * k <= 2 * m * m /\ (k + 1) * (k + 1) > 2 * m * m

concentric_circles_path(sz) ==
    fill_concentric_circles(sz, <<sz[1] \div 2, sz[2] \div 2>>,
                            Sqrt2Times(Max(sz[2], sz[1])))

fill_with_circles_path(sz, radius) ==
    LET d == Sqrt2Times(radius)
        xs == range(d \div 2, sz[1] + d, d)
        ys == range(d \div 2, sz[2] + d, d)
    IN  Concat([i \in 1..Len(xs) |->
                  Concat([j \in 1..Len(ys) |->
                            fill_concentric_circles(sz, <<xs[i], ys[j]>>, radius)])])

\* path(size, **path_kwargs)
PathRows(name, sz, kwargs) ==
    CASE name = "circles" -> concentric_circles_path(sz)
      [] name = "fill-circles" -> fill_with_circles_path(sz, kwargs.radius)
      [] name \notin {"circles", "fill-circles"} -> PathByName(name, sz)

path_to_list ==
    /\ pc = "call_path"
    /\ path # "angled-line"
    /\ path_rows' = PathRows(path, size, path_kwargs)
    /\ pc' = "done"
    /\ UNCHANGED <<callvars, sortvars, filtervars, maskvars, tilevars, path,
                   path_kwargs, distribution, walk_weights, start_points,
                   random_starts, walk_pos, walk_len, yielded, line_starts,
                   line>>

\* angle % 180 for the angles of the calls, 1 for every value but 0 and 90
AngleMod180(angle) ==
    CASE angle \in {"0", "180"} -> 0
      [] angle \in {"90", "-90"} -> 90
      [] OTHER -> 1

\* tan(radians(angle)) for the angles of the calls, a double that is a
\* fraction <<numerator, denominator>>
Tan(angle) ==
    CASE angle = "14.036243467926479" -> <<1, 4>>
      [] angle = "36.86989764584402" -> <<3, 4>>
      [] angle = "1305" -> <<1, 1>>
      [] angle = "-116.56505117707799" -> <<2, 1>>
      [] angle = "-104.03624346792648" -> <<4, 1>>
      [] angle = "-14.036243467926479" -> <<-1, 4>>
      [] angle = "-36.86989764584402" -> <<-3, 4>>
      [] angle = "-56.309932474020215" -> <<-3, 2>>
      [] angle = "116.56505117707799" -> <<-2, 1>>
      [] angle = "104.03624346792648" -> <<-4, 1>>

\* the start points of the two loops of angled_path
LineStarts(sz, slope) ==
    LET start_y == IF slope[1] > 0 THEN 0 ELSE sz[2] - 1
        xs == range(sz[1] - 1, 0, -1)
        ys == range(0, sz[2], 1)
    IN  [k \in 1..Len(xs) |-> <<xs[k], start_y>>]
        \o [k \in 1..Len(ys) |-> <<0, ys[k]>>]

\* draw_line that never exchanges x and y
draw_line_unswitched(start, slope) ==
    [slope |-> slope, switch_xy |-> FALSE, slope_sgn |-> sign(slope[1]), dx |-> 0,
     dy |-> 0, start |-> start, current_point |-> start,
     error |-> <<0 - slope[2], slope[2]>>]

\* the local variables of draw_line(start, size, slope) before its loop;
\* 1 / slope is exact for the slopes 2 and 4
draw_line(start, slope) ==
    IF slope[1] > slope[2]
    THEN [slope |-> <<slope[2], slope[1]>>, switch_xy |-> TRUE, slope_sgn |-> 1,
          dx |-> 0, dy |-> 0, start |-> start, current_point |-> start,
          error |-> <<0 - slope[1], slope[1]>>]
    ELSE [slope |-> slope, switch_xy |-> FALSE, slope_sgn |-> sign(slope[1]),
          dx |-> 0, dy |-> 0, start |-> start, current_point |-> start,
          error |-> <<0 - slope[2], slope[2]>>]

\* the local variables after one turn of the loop of draw_line
LineTurn(l) ==
    LET dx == l.dx + 1
        error == <<l.error[1] + Abs(l.slope[1]), l.error[2]>>
        up == error[1] > 0
        dy == IF up THEN l.dy + l.slope_sgn ELSE l.dy
    IN  [l EXCEPT !.dx = dx, !.dy = dy,
                  !.error = IF up THEN <<error[1] - error[2], error[2]>> ELSE error,
                  !.current_point =
                      IF ~l.switch_xy THEN <<dx + l.start[1], dy + l.start[2]>>
                      ELSE <<l.start[1] + dy, l.start[2] + dx>>]

\* angled_path up to its first yield
angled_path_begin ==
    /\ pc = "call_path"
    /\ path = "angled-line"
    /\ IF AngleMod180(path_kwargs.angle) = 0
       THEN /\ path_rows' = horizontal_path(size)
            /\ pc' = "done"
            /\ UNCHANGED line_starts
       ELSE IF AngleMod180(path_kwargs.angle) = 90
       THEN /\ path_rows' = vertical_path(size)
            /\ pc' = "done"
            /\ UNCHANGED line_starts
       ELSE /\ line_starts' = LineStarts(size, Tan(path_kwargs.angle))
            /\ pc' = "lines"
            /\ UNCHANGED path_rows
    /\ UNCHANGED <<callvars, sortvars, filtervars, maskvars, tilevars, path,
                   path_kwargs, distribution, walk_weights, start_points,
                   random_starts, walk_pos, walk_len, yielded, line>>

\* yield draw_line((x, start_y), size, slope), and the same for (0, y)
NextLine ==
    /\ pc = "lines"
    /\ IF line_starts = <<>>
       THEN /\ pc' = "done"
            /\ UNCHANGED <<line_starts, line, path_rows>>
       ELSE /\ line' = draw_line(Head(line_starts), Tan(path_kwargs.angle))
            /\ line_starts' = Tail(line_starts)
            /\ path_rows' = Append(path_rows, <<>>)
            /\ pc' = "line"
    /\ UNCHANGED <<callvars, sortvars, filtervars, maskvars, tilevars, path,
                   path_kwargs, distribution, walk_weights, start_points,
                   random_starts, walk_pos, walk_len, yielded>>

\* one test of the loop of draw_line, and its turn when the test holds
LineStep ==
    /\ pc = "line"
    /\ IF in_bounds(<<0, 0>>, size, line.current_point)
       THEN /\ yielded' = line.current_point
            /\ path_rows' = [path_rows EXCEPT ![Len(path_rows)] =
                                Append(@, line.current_point)]
            /\ line' = LineTurn(line)
            /\ pc' = "line"
       ELSE /\ pc' = "lines"
            /\ UNCHANGED <<yielded, path_rows, line>>
    /\ UNCHANGED <<callvars, sortvars, filtervars, maskvars, tilevars, path,
                   path_kwargs, distribution, walk_weights, start_points,
                   random_starts, walk_pos, walk_len, line_starts>>

\* the angles of the calls of angled_path
Angles ==
    {"0", "90", "180", "-90", "14.036243467926479", "36.86989764584402", "1305",
     "-116.56505117707799", "-104.03624346792648", "-14.036243467926479",
     "-36.86989764584402", "-56.309932474020215", "116.56505117707799",
     "104.03624346792648"}

\* the radii of the calls of fill_with_circles_path, as a keyword argument
Radii == {1, 2, 3}

\* the images of the circles are large enough to have pixels that lie
\* between the plain circles of two radii, the first of them 8 by 4
MaxCircleSide == 8

CircleSizes == (1..MaxCircleSide) \X (1..MaxCircleSide)

\* the size, the path and its keyword arguments
PathCalls ==
    \/ /\ size \in PathSizes
       /\ path \in PathNames
       /\ path_kwargs = [angle |-> "0", radius |-> 100]
    \/ /\ size \in CircleSizes
       /\ path = "circles"
       /\ path_kwargs = [angle |-> "0", radius |-> 100]
    \/ /\ size \in PathSizes
       /\ path = "fill-circles"
       /\ path_kwargs \in {[angle |-> "0", radius |-> r] : r \in Radii}
    \/ /\ size \in PathSizes
       /\ path = "angled-line"
       /\ path_kwargs \in {[angle |-> a, radius |-> 100] : a \in Angles}

InitPaths ==
    /\ pc = "call_path"
    /\ image = <<>>
    /\ args = DefaultArgs
    /\ PathCalls
    /\ path_rows = <<>>
    /\ distribution = [given |-> FALSE, ints |-> TRUE, weights |-> <<>>]
    /\ walk_weights = <<>>
    /\ start_points = <<>>
    /\ random_starts = 0
    /\ walk_pos = <<0, 0>>
    /\ walk_len = 0
    /\ yielded = <<>>
    /\ IdleLine
    /\ IdleSort
    /\ IdleFilter
    /\ IdleMask
    /\ IdleCli
    /\ IdleTiles

NextPaths == path_to_list \/ angled_path_begin \/ NextLine \/ LineStep

SpecPaths == InitPaths /\ [][NextPaths]_vars

(***************************************************************************)
(* The path generators together: path_to_list on a path without random     *)
(* choices, or a random walk.                                              *)
(***************************************************************************)
InitAllPaths == InitPaths \/ InitWalk

NextAllPaths == NextPaths \/ NextWalk

SpecAllPaths == InitAllPaths /\ [][NextAllPaths]_vars

(***************************************************************************)
(* sort_image with an edge threshold, on images that have inner pixels     *)
(***************************************************************************)
\* the longest side of an image
MaxEdgeSide == 3

EdgeSizes == (1..MaxEdgeSide) \X (1..MaxEdgeSide)

EdgePixels == {<<5, 5, 5>>, <<200, 0, 0>>}

\* the images of one colour, and those with one pixel of another colour
EdgeImages(n) ==
    {[k \in 1..n |-> p] : p \in EdgePixels}
    \cup {[k \in 1..n |-> IF k = j THEN q ELSE p] :
            p \in EdgePixels, q \in EdgePixels, j \in 1..n}

InitEdge ==
    /\ pc = "call"
    /\ size \in EdgeSizes
    /\ image \in EdgeImages(size[1] * size[2])
    /\ args \in {[DefaultArgs EXCEPT !.key = "red", !.edge_threshold = t] :
                    t \in {0, 1, 100}}
    /\ IdleSort
    /\ IdleFilter
    /\ IdleMask
    /\ IdleCli
    /\ IdlePaths
    /\ IdleTiles

SpecEdge == InitEdge /\ [][Next]_vars

(***************************************************************************)
(* create_sort_mask of the older script pixelsort.py, and its sort_image,  *)
(* which hands the mask to apply_sort_mask.  The script is Python 2: None  *)
(* orders before every number.  pixel_mask is the variable sort_mask.      *)
(***************************************************************************)
\* clamp(image_threshold, 0.0, 1.0), where None gives 0.0
OldThreshold(a) ==
    IF a.image_threshold = NoneSeq THEN <<0, 1>> ELSE clamp(a.image_threshold, 0, 1)

\* the three tests of the loop over the pixels before the path is taken
PreMarked(a, img, ed, i) ==
    \/ a.image_mask # NoneSeq /\ luma(At(a.image_mask, i)) > 1280000
    \/ ed # NoneSeq /\ At(ed, i) # NoneSeq /\ EdgeAbove(At(ed, i), a.edge_threshold)
    \/ OutsideBand(At(img, i), OldThreshold(a))

\* the loop that takes the coordinates of an interval from the row
RECURSIVE MarkLoop(_, _, _, _, _, _)
MarkLoop(mask, width, row, i, iv, coords) ==
    IF ~(i * iv[2] < iv[1] \/ iv[1] = 0)
    THEN [row_iter |-> row, path_finished |-> FALSE, coords |-> coords]
    ELSE IF row = <<>>
    THEN [row_iter |-> row, path_finished |-> TRUE, coords |-> coords]
    ELSE IF At(mask, coords_to_index(Head(row), width))[1] > 0
    THEN [row_iter |-> Tail(row), path_finished |-> FALSE, coords |-> Head(row)]
    ELSE MarkLoop(mask, width, Tail(row), i + 1, iv, Head(row))

\* the mask when the end of an interval is left as it is
MarkedNot(mask, width, coords) == mask

\* if coords is not None: pixel_mask[coords_to_index(coords, width)] = 1
Marked(mask, width, coords) ==
    IF coords # NoneSeq
    THEN [mask EXCEPT ![coords_to_index(coords, width) + 1] = <<1, 1>>]
    ELSE mask

create_sort_mask_begin ==
    /\ pc = "call_create"
    /\ LET ed == IF args.edge_threshold > 0 THEN edge_detect(image, size) ELSE NoneSeq
       IN  /\ edge_data' = ed
           /\ sort_mask' = [k \in 1..(size[1] * size[2]) |->
                              IF PreMarked(args, image, ed, k - 1)
                              THEN <<1, 1>> ELSE <<0, 1>>]
    /\ path_iterator' = PathOf(args, size)
    /\ current_max_interval' = StartInterval(args)
    /\ pc' = "create_rows"
    /\ UNCHANGED <<callvars, filtervars, pathvars, tilevars, out_pixels, row_iter,
                   path_finished, interval, px_indices, stop_idx>>

CreateNextRow ==
    /\ pc = "create_rows"
    /\ path_iterator # <<>>
    /\ row_iter' = Head(path_iterator)
    /\ path_iterator' = Tail(path_iterator)
    /\ path_finished' = FALSE
    /\ pc' = "create_row"
    /\ UNCHANGED <<callvars, filtervars, maskvars, pathvars, tilevars, out_pixels,
                   edge_data, current_max_interval, interval, px_indices, stop_idx>>

\* one pass of the loop while not path_finished
MarkInterval ==
    /\ pc = "create_row"
    /\ LET cmi == GrownInterval(args, current_max_interval)
       IN  \E iv \in Intervals(args, cmi) :
             LET m == MarkLoop(sort_mask, size[1], row_iter, 0, iv, NoneSeq)
             IN  /\ current_max_interval' = cmi
                 /\ interval' = iv
                 /\ row_iter' = m.row_iter
                 /\ path_finished' = m.path_finished
                 /\ sort_mask' = Marked(sort_mask, size[1], m.coords)
                 /\ pc' = IF m.path_finished THEN "create_rows" ELSE "create_row"
    /\ UNCHANGED <<callvars, filtervars, pathvars, tilevars, out_pixels, edge_data,
                   path_iterator, px_indices, stop_idx>>

\* return pixel_mask, which sort_image gives to apply_sort_mask
CreateReturn ==
    /\ pc = "create_rows"
    /\ path_iterator = <<>>
    /\ pc' = "call_mask"
    /\ UNCHANGED <<callvars, sortvars, filtervars, maskvars, pathvars, tilevars>>

\* an image whose pixels are in descending order of red
Descending(n) == [k \in 1..n |-> <<n + 1 - k, 0, 0>>]

\* the calls of the older sort_image: the interval sizes and the paths
CreateIntervalArgs ==
    {[DefaultArgs EXCEPT !.key = "red", !.max_interval = m, !.randomize = z,
                         !.progressive_amount = p, !.vertical = v, !.path = n] :
        m \in 0..MaxInterval, z \in BOOLEAN, p \in {<<0, 1>>, <<1, 2>>},
        v \in BOOLEAN, n \in {None, "diagonal", "concentric"}}

\* an image mask
CreateMaskArgs(n) ==
    {[DefaultArgs EXCEPT !.key = "red", !.image_mask = im, !.max_interval = m] :
        im \in Masks(n), m \in {0, MaxInterval}}

\* a brightness band, on images with dark and bright pixels
CreateBandArgs ==
    {[DefaultArgs EXCEPT !.key = "red", !.image_threshold = <<1, 2>>,
                         !.max_interval = m] : m \in {0, MaxInterval}}

\* an edge threshold, on images with inner pixels
CreateEdgeArgs ==
    {[DefaultArgs EXCEPT !.key = "red", !.edge_threshold = t, !.max_interval = m] :
        t \in {1, 100}, m \in {0, MaxInterval}}

CreateCalls ==
    \/ /\ size \in Sizes
       /\ image = Descending(size[1] * size[2])
       /\ args \in CreateIntervalArgs \cup CreateMaskArgs(size[1] * size[2])
    \/ /\ size \in Sizes
       /\ image \in [1..(size[1] * size[2]) -> MarkerPixels]
       /\ args \in CreateBandArgs
    \/ /\ size \in EdgeSizes
       /\ image \in EdgeImages(size[1] * size[2])
       /\ args \in CreateEdgeArgs

InitCreate ==
    /\ pc = "call_create"
    /\ CreateCalls
    /\ sort_mask = <<>>
    /\ IdleSort
    /\ IdleFilter
    /\ IdleTiles
    /\ IdleCli
    /\ IdlePaths

NextCreate ==
    \/ create_sort_mask_begin
    \/ CreateNextRow
    \/ MarkInterval
    \/ CreateReturn
    \/ NextMask

SpecCreate == InitCreate /\ [][NextCreate]_vars

(***************************************************************************)
(* sort_image with a key and discretize > 0                                *)
(***************************************************************************)
\* the keys red and sum of the pixels of Pixels fall into the same bucket
\* for several pixels when they are divided by 2 or by 3
DiscretizeArgs ==
    {[DefaultArgs EXCEPT !.key = k, !.discretize = d, !.reverse = r,
                         !.max_interval = m, !.vertical = v] :
        k \in {"red", "sum"}, d \in {2, 3}, r \in BOOLEAN, m \in {0, MaxInterval},
        v \in BOOLEAN}

InitDiscretize ==
    /\ pc = "call"
    /\ size \in Sizes
    /\ image \in Images(size)
    /\ args \in DiscretizeArgs
    /\ IdleSort
    /\ IdleFilter
    /\ IdleMask
    /\ IdleCli
    /\ IdlePaths
    /\ IdleTiles

SpecDiscretize == InitDiscretize /\ [][Next]_vars

(***************************************************************************)
(* sort_image over the paths whose rows meet every pixel once: the rows,   *)
(* the columns, diagonal and diagonal-single, with the arguments varied in *)
(* groups as above.                                                        *)
(***************************************************************************)
PermutePixels == {<<1, 0, 0>>, <<2, 255, 0>>}

PermuteOrderArgs ==
    {[DefaultArgs EXCEPT !.key = k, !.discretize = d, !.reverse = r,
                         !.max_interval = m, !.randomize = z,
                         !.progressive_amount = p] :
        k \in {None, "red"}, d \in {0, 2}, r \in BOOLEAN,
        m \in {0, MaxInterval}, z \in BOOLEAN, p \in {<<0, 1>>, <<1, 2>>}}

PermuteFilterArgs ==
    {[DefaultArgs EXCEPT !.key = "red", !.mirror = mi, !.splice = sp,
                         !.splice_random = sr, !.max_interval = m] :
        mi \in BOOLEAN, sp \in Fractions, sr \in BOOLEAN, m \in {0, MaxInterval}}

PermuteMarkerArgs(n) ==
    {[DefaultArgs EXCEPT !.key = "red", !.image_mask = im] : im \in Masks(n)}
    \cup {[DefaultArgs EXCEPT !.key = "red", !.image_threshold = <<1, 2>>]}

\* the arguments a, over each of the four paths
OverPaths(a) ==
    {[a EXCEPT !.vertical = v] : v \in BOOLEAN}
    \cup {[a EXCEPT !.path = n] : n \in {"diagonal", "diagonal-single"}}

InitPermute ==
    /\ pc = "call"
    /\ size \in Sizes
    /\ image \in [1..(size[1] * size[2]) -> PermutePixels]
    /\ args \in UNION {OverPaths(a) :
                         a \in PermuteOrderArgs \cup PermuteFilterArgs
                               \cup PermuteMarkerArgs(size[1] * size[2])}
    /\ IdleSort
    /\ IdleFilter
    /\ IdleMask
    /\ IdleCli
    /\ IdlePaths
    /\ IdleTiles

SpecPermute == InitPermute /\ [][Next]_vars

(***************************************************************************)
(* sort_image with every max_interval that --max-interval takes (type=int, *)
(* so negative ones too), run to its end: a step of the interpreter is     *)
(* always taken, which is weak fairness of Next.  A pass of the interval   *)
(* loop that changes nothing is a stuttering step.  With a negative        *)
(* max_interval and progressive_amount > 0 current_max_interval falls      *)
(* without bound; these calls are left to the run on the source.           *)
(***************************************************************************)
TerminateArgs ==
    {[DefaultArgs EXCEPT !.key = "red", !.max_interval = m, !.randomize = z,
                         !.progressive_amount = p, !.image_threshold = th] :
        m \in (-1)..MaxInterval, z \in BOOLEAN,
        p \in {<<0, 1>>, <<1, 2>>}, th \in {NoneSeq, <<1, 2>>}}

InitTerminate ==
    /\ pc = "call"
    /\ size \in Sizes
    /\ image \in [1..(size[1] * size[2]) -> PermutePixels]
    /\ args \in UNION {OverPaths(a) :
                         a \in {t \in TerminateArgs :
                                  t.max_interval < 0 => t.progressive_amount[1] = 0}}
    /\ IdleSort
    /\ IdleFilter
    /\ IdleMask
    /\ IdleCli
    /\ IdlePaths
    /\ IdleTiles

SpecTerminate == InitTerminate /\ [][Next]_vars /\ WF_vars(Next)

(***************************************************************************)
(* sort_image without random draws and without mirror or splice, over the  *)
(* rows, the columns and diagonal, for the second call on its own output.  *)
(***************************************************************************)
AgainOrderArgs ==
    {[DefaultArgs EXCEPT !.key = k, !.discretize = d, !.reverse = r,
                         !.max_interval = m, !.progressive_amount = p] :
        k \in {None, "red"}, d \in {0, 3}, r \in BOOLEAN, m \in 0..MaxInterval,
        p \in {<<0, 1>>, <<1, 2>>}}

AgainMarkerArgs(n) ==
    {[DefaultArgs EXCEPT !.key = "red", !.discretize = d, !.max_interval = m,
                         !.image_mask = im, !.image_threshold = th] :
        d \in {0, 3}, m \in {0, MaxInterval}, im \in Masks(n) \cup {NoneSeq},
        th \in {NoneSeq, <<1, 2>>}}

InitAgain ==
    /\ pc = "call"
    /\ size \in Sizes
    /\ image \in [1..(size[1] * size[2]) -> PermutePixels]
    /\ args \in UNION {{[a EXCEPT !.vertical = v] : v \in BOOLEAN}
                         \cup {[a EXCEPT !.path = "diagonal"]} :
                         a \in AgainOrderArgs \cup AgainMarkerArgs(size[1] * size[2])}
    /\ IdleSort
    /\ IdleFilter
    /\ IdleMask
    /\ IdleCli
    /\ IdlePaths
    /\ IdleTiles

SpecAgain == InitAgain /\ [][Next]_vars

(***************************************************************************)
(* The two entry points together: a call of sort_image or a call of        *)
(* sort_image_tiles.                                                       *)
(***************************************************************************)
\* the calls of sort_image with random interval sizes are those on one row
EntryCalls == args.randomize => size[2] = 1

InitEntry == (Init /\ EntryCalls) \/ InitTiles

NextEntry == Next \/ NextTiles

SpecEntry == InitEntry /\ [][NextEntry]_vars

(***************************************************************************)
(* Properties of sort_image                                                *)
(***************************************************************************)
Injections(n) == {f \in [1..n -> 1..n] : \A j, k \in 1..n : f[j] = f[k] => j = k}

\* the pixels of img along row y of the horizontal path
RowOf(img, sz, y) == [x \in 1..sz[1] |-> At(img, y * sz[1] + x - 1)]

\* o is i in ascending order of the key, pixels of equal key in the order of i
StableAscending(o, i, key) ==
    /\ Len(o) = Len(i)
    /\ \E f \in Injections(Len(i)) :
         /\ \A k \in 1..Len(i) : o[k] = i[f[k]]
         /\ \A j, k \in 1..Len(i) :
              j < k => \/ KeyValue(key, o[j]) < KeyValue(key, o[k])
                       \/ KeyValue(key, o[j]) = KeyValue(key, o[k]) /\ f[j] < f[k]

\* the call of C1: all arguments but the key at their defaults, path horizontal
PlainRows(a) ==
    /\ a.key \in PIXEL_KEY_NAMES
    /\ a = [DefaultArgs EXCEPT !.key = a.key]

\* C1: with the horizontal path, max_interval = 0, no randomization, no
\* marker, no reversal, no mirror and no splice, every row of the output of
\* sort_image is the stable ascending sort by key of that row of the input.
C1_RowsStablySorted ==
    (pc = "done" /\ PlainRows(args)) =>
        /\ Len(out_pixels) = Len(image)
        /\ \A y \in 0..(size[2] - 1) :
             StableAscending(RowOf(out_pixels, size, y), RowOf(image, size, y), args.key)

\* C1, witness: the row of the example is sorted by red, and a row with two
\* pixels of equal red keeps them in their order
C1_Witness ==
    /\ pc = "done"
    /\ PlainRows(args)
    /\ args.key = "red"
    /\ size = <<3, 1>>
    /\ image = << <<3, 0, 0>>, <<1, 0, 0>>, <<2, 0, 0>> >>
    /\ out_pixels = << <<1, 0, 0>>, <<2, 0, 0>>, <<3, 0, 0>> >>

\* the place of a pixel of 8-bit channels in the order of the tuples
Rank(p) == (p[1] * 256 + p[2]) * 256 + p[3]

\* o is i ordered by the pixel tuples themselves, descending when reverse
TupleOrdered(o, i, reverse) ==
    /\ Len(o) = Len(i)
    /\ \E f \in Injections(Len(i)) : \A k \in 1..Len(i) : o[k] = i[f[k]]
    /\ \A j, k \in 1..Len(o) :
         j < k => IF reverse THEN Rank(o[j]) >= Rank(o[k]) ELSE Rank(o[j]) <= Rank(o[k])

\* C2 as claimed: without a key the output of sort_image is the input.
C2_Original == (pc = "done" /\ args.key = None) => out_pixels = image

\* C2, amended: without a key every interval is sorted by the pixel tuples
\* themselves (descending when reverse): the pixels written for an interval
\* are the pixels the input has there, in tuple order, so the output is the
\* input only where every interval is in that order already.
C2_NoKeySortsByTuple ==
    (pc \in {"row", "rows"} /\ args.key = None /\ ~args.mirror
        /\ args.splice[1] = 0 /\ ~args.splice_random) =>
        TupleOrdered(Pick(out_pixels, px_indices), Pick(image, px_indices), args.reverse)

\* C2, witness: a call without a key that has moved a pixel
C2_Witness ==
    /\ pc = "done"
    /\ args.key = None
    /\ Len(px_indices) > 1
    /\ out_pixels # image

(***************************************************************************)
(* Properties of sort_filter                                               *)
(***************************************************************************)
\* the integers n with n <= num / den, the greatest of which is the floor
FloorOf(num, den) == CHOOSE n \in 0..num : n * den <= num /\ (n + 1) * den > num

\* round(num / den) of Python: to the nearest integer, a half to the even one
RoundOf(num, den) ==
    LET f == FloorOf(num, den)
        r == 2 * (num - f * den)
    IN  IF r > den \/ (r = den /\ f % 2 = 1) THEN f + 1 ELSE f

\* r is q rotated so that the element at index s of q comes first
RotatedBy(r, q, s) ==
    /\ Len(r) = Len(q)
    /\ \A k \in 0..(Len(q) - 1) : At(r, k) = At(q, (k + s) % Len(q))

\* the call of C3: a splice in (0, 1], not random, no mirror
SpliceOnly(a) ==
    /\ ~a.mirror
    /\ ~a.splice_random
    /\ a.splice[1] > 0
    /\ a.splice[1] <= a.splice[2]

\* C3 as claimed: the list is rotated to start at round((n - 1) * splice).
C3_Original ==
    (pc = "done" /\ SpliceOnly(args) /\ Len(lst) > 0) =>
        RotatedBy(filtered, lst,
                  RoundOf((Len(lst) - 1) * args.splice[1], args.splice[2]))

\* C3, amended: for 0 < splice <= 1, without splice_random and mirror,
\* sort_filter returns l rotated to start at s = floor((n - 1) * splice), the
\* product truncated and not rounded: l[s:] + l[:s].
C3_RotatesByFloor ==
    (pc = "done" /\ SpliceOnly(args) /\ Len(lst) > 0) =>
        RotatedBy(filtered, lst,
                  FloorOf((Len(lst) - 1) * args.splice[1], args.splice[2]))

\* C3, witness: [a, b, c, d] with splice = 0.5 becomes [b, c, d, a]
C3_Witness ==
    /\ pc = "done"
    /\ SpliceOnly(args)
    /\ args.splice = <<1, 2>>
    /\ lst = << <<1, 0, 0>>, <<2, 0, 0>>, <<3, 0, 0>>, <<2, 255, 0>> >>
    /\ filtered = << <<2, 0, 0>>, <<3, 0, 0>>, <<2, 255, 0>>, <<1, 0, 0>> >>

\* the place of the input element k in the mirrored list of length n
MirrorPlace(k, n) == IF k % 2 = 0 THEN k \div 2 ELSE n - 1 - (k - 1) \div 2

\* C4: with mirror and no splice, sort_filter puts the input element k at
\* k/2 when k is even and at n-1-(k-1)/2 when k is odd, and these places are
\* all different: the output is a permutation of the input.
C4_MirrorPlaces ==
    (pc = "done" /\ args.mirror /\ args.splice[1] = 0 /\ ~args.splice_random) =>
        /\ Len(filtered) = Len(lst)
        /\ \A k \in 0..(Len(lst) - 1) :
             /\ MirrorPlace(k, Len(lst)) \in 0..(Len(lst) - 1)
             /\ At(filtered, MirrorPlace(k, Len(lst))) = At(lst, k)
        /\ \A j, k \in 0..(Len(lst) - 1) :
             MirrorPlace(j, Len(lst)) = MirrorPlace(k, Len(lst)) => j = k

\* C4, witness: [a, b, c, d] becomes [a, c, d, b]
C4_Witness ==
    /\ pc = "done"
    /\ args.mirror
    /\ args.splice[1] = 0
    /\ ~args.splice_random
    /\ lst = << <<1, 0, 0>>, <<2, 0, 0>>, <<3, 0, 0>>, <<2, 255, 0>> >>
    /\ filtered = << <<1, 0, 0>>, <<3, 0, 0>>, <<2, 255, 0>>, <<2, 0, 0>> >>

(***************************************************************************)
(* Properties of the intervals of sort_image                               *)
(***************************************************************************)
\* C5: a pixel that ends an interval because it carries a boundary marker
\* (image mask, edge value or brightness band) is itself gathered into that
\* interval, as its last pixel, and is sorted and written back with it.
C5_BoundaryGathered ==
    (pc \in {"row", "rows"} /\ stop_idx # -1) =>
        /\ Len(px_indices) > 0
        /\ px_indices[Len(px_indices)] = stop_idx

\* C7: with max_interval = k > 0 and progressive_amount = 0 every interval
\* that sort_image sorts has at most k pixels, randomized or not.
C7_RunsWithinMaxInterval ==
    (args.max_interval > 0 /\ args.progressive_amount[1] = 0) =>
        Len(px_indices) <= args.max_interval

(***************************************************************************)
(* Properties of apply_sort_mask                                           *)
(***************************************************************************)
\* o is in the order of the key of a, descending when reverse
KeyOrdered(o, a) ==
    \A j, k \in 1..Len(o) :
        j < k => IF a.reverse
                 THEN KeyValue(a.key, o[j]) >= KeyValue(a.key, o[k])
                 ELSE KeyValue(a.key, o[j]) <= KeyValue(a.key, o[k])

\* C6: a non-empty run that is pending when its row is exhausted is sorted
\* and written back like any other run: the pixels at its indices are in
\* the order of the key when the row is left, and apply_sort_mask with an
\* all-zero mask returns every whole row sorted.
C6_PendingRunFlushed ==
    /\ pc = "mask_rows" => KeyOrdered(Pick(out_pixels, px_indices), args)
    /\ (pc = "mask_done" /\ PlainRows(args)
            /\ \A k \in 1..Len(sort_mask) : sort_mask[k] = <<0, 1>>) =>
         \A y \in 0..(size[2] - 1) :
            StableAscending(RowOf(out_pixels, size, y), RowOf(image, size, y), args.key)

(***************************************************************************)
(* Properties of sort_image_tiles                                          *)
(***************************************************************************)
\* tile_density is 1.0
Dense == tile_density[1] = tile_density[2]

\* the call of C8: every tile included, the tiles fitting the image
AlignedDense ==
    /\ Dense
    /\ ~randomize_tiles
    /\ size[1] % tile_size[1] = 0
    /\ size[2] % tile_size[2] = 0
    /\ ~args.randomize
    /\ ~args.splice_random

\* no row of the sort path crosses the border of a tile, and no argument
\* makes a row depend on another row or on its place in the image
RowsInsideTiles ==
    /\ args.path = None
    /\ IF args.vertical THEN tile_size[2] = size[2] ELSE tile_size[1] = size[1]
    /\ args.progressive_amount[1] = 0
    /\ args.image_mask = NoneSeq
    /\ args.edge_threshold = 0

\* C8 as claimed: with tile_density = 1.0, no randomization and tiles that
\* fit the image, sort_image_tiles returns what sort_image returns for the
\* whole image.
C8_Original ==
    (pc = "tiles_done" /\ AlignedDense) =>
        out_image = sort_image(image, size, args).out_pixels

\* C8, amended: under the conditions of the claim the two outputs are equal
\* when no row of the sort path crosses a tile border (horizontal path and
\* tile width = image width, or vertical path and tile height = image
\* height; a single tile is both) and the configuration has no image mask,
\* no edge threshold and no progressive growth.
C8_EqualWhenRowsInsideTiles ==
    (pc = "tiles_done" /\ AlignedDense /\ RowsInsideTiles) =>
        out_image = sort_image(image, size, args).out_pixels

\* C8, witness: two tiles, each a whole row, sorted to the output of the
\* whole image
C8_Witness ==
    /\ pc = "tiles_done"
    /\ AlignedDense
    /\ RowsInsideTiles
    /\ size = <<2, 2>>
    /\ tile_size = <<2, 1>>
    /\ Len(tiles_sorted) = 2
    /\ image = << <<2, 0, 0>>, <<1, 0, 0>>, <<3, 0, 0>>, <<2, 0, 0>> >>
    /\ out_image = << <<1, 0, 0>>, <<2, 0, 0>>, <<2, 0, 0>>, <<3, 0, 0>> >>

\* floor(n * d) for a density d = <<a, b>>
FloorTimes(n, d) == (n * d[1]) \div d[2]

\* C9: without randomize_tiles and with 0 < tile_density <= 1, after n cells
\* exactly floor(n * tile_density) tiles have been sorted and the
\* accumulator i is in [0, 1 / tile_density); with tile_density = 1 every
\* tile is sorted, with tile_density = 0 none.
C9_AccumulatorCounts ==
    (pc \in {"tiles", "tiles_done"} /\ ~randomize_tiles) =>
        /\ tile_density[1] > 0 =>
             /\ Len(tiles_sorted) = FloorTimes(tiles_completed, tile_density)
             /\ ~DoubleLess(tile_i, <<0, 0>>)
             /\ DoubleLess(tile_i, Reciprocal(tile_density))
        /\ Dense => Len(tiles_sorted) = tiles_completed
        /\ tile_density[1] = 0 => tiles_sorted = <<>>

\* the corners of the grid of tiles
Corners ==
    {c \in (0..(size[1] - 1)) \X (0..(size[2] - 1)) :
        c[1] % tile_size[1] = 0 /\ c[2] % tile_size[2] = 0}

\* the size of the tile at the corner c, truncated at the edge of the image
Truncated(c) ==
    <<IF size[1] - c[1] < tile_size[1] THEN size[1] - c[1] ELSE tile_size[1],
      IF size[2] - c[2] < tile_size[2] THEN size[2] - c[2] ELSE tile_size[2]>>

\* the pixels of img in the rectangle of size ts at the corner c, row by row
SubImage(img, c, ts) ==
    [k \in 1..(ts[1] * ts[2]) |->
        img[(c[2] + ((k - 1) \div ts[1])) * size[1] + c[1] + ((k - 1) % ts[1]) + 1]]

\* the tile at the corner c was handed to sort_image
Included(c) == \E k \in 1..Len(tiles_sorted) : tiles_sorted[k] = c

\* C10: the output of sort_image_tiles is the input at every pixel of an
\* excluded tile, and in the rectangle of an included tile it is sort_image
\* of that tile's sub-image, placed at the tile's corner; every pixel is in
\* exactly one rectangle, so a tile written back changes nothing outside
\* its own.
C10_TilesFrame ==
    pc \in {"tiles", "tiles_done"} =>
        /\ Len(out_image) = Len(image)
        /\ \A c \in Corners :
             SubImage(out_image, c, Truncated(c)) =
                IF Included(c)
                THEN sort_image(SubImage(image, c, Truncated(c)), Truncated(c),
                                args).out_pixels
                ELSE SubImage(image, c, Truncated(c))

\* C10, witness: a finished call with a truncated tile, a tile in the second
\* row of tiles that was sorted and changed, and an excluded tile
C10_Witness ==
    /\ pc = "tiles_done"
    /\ size[1] % tile_size[1] # 0
    /\ \E c \in Corners :
         /\ c[2] > 0
         /\ Included(c)
         /\ SubImage(out_image, c, Truncated(c)) # SubImage(image, c, Truncated(c))
    /\ \E c \in Corners : ~Included(c)

(***************************************************************************)
(* Properties of the tile steps taken in any order                         *)
(***************************************************************************)
\* the output of the steps taken tile after tile in the order of the loops
\* of sort_image_tiles, for the tiles that are written
RECURSIVE TilesInOrder(_, _)
TilesInOrder(out, cs) ==
    IF cs = <<>>
    THEN out
    ELSE LET c == Head(cs)
             t == get_tile_from_image(image, size, c, tile_size)
         IN  TilesInOrder(IF tile_stage[c] = "written"
                          THEN apply_tile_to_image(out, size,
                                                   sort_image(t.tile, t.size,
                                                              args).out_pixels,
                                                   t.size, c)
                          ELSE out,
                          Tail(cs))

\* the flat indices of the rectangle of the tile at the corner c
Rectangle(c) ==
    {(c[2] + y) * size[1] + c[1] + x :
        x \in 0..(Truncated(c)[1] - 1), y \in 0..(Truncated(c)[2] - 1)}

\* C11: for a fixed set of included tiles and a deterministic configuration,
\* the steps extract, sort and write back of the tiles, taken in any order
\* and interleaving, end with the output buffer that the order of the loops
\* gives; the rectangles of distinct tiles are disjoint.
C11_AnyOrderSameOutput ==
    pc \in {"any_order", "any_done"} =>
        /\ \A c1, c2 \in DOMAIN tile_stage :
             c1 # c2 => Rectangle(c1) \cap Rectangle(c2) = {}
        /\ pc = "any_done" =>
             out_image = TilesInOrder(image, TileCorners(size, tile_size))

\* C11, witness: a later tile of the loops is written, and has changed the
\* output, while an earlier tile is extracted and not yet sorted
C11_Witness ==
    /\ pc = "any_order"
    /\ out_image # image
    /\ \E j, k \in 1..Len(TileCorners(size, tile_size)) :
         /\ j < k
         /\ tile_stage[TileCorners(size, tile_size)[j]] = "extracted"
         /\ tile_stage[TileCorners(size, tile_size)[k]] = "written"

(***************************************************************************)
(* Properties of the two entry points                                      *)
(***************************************************************************)
\* C12: no step of sort_image or of sort_image_tiles changes the caller's
\* pixel list, be it in a call that returns or in one that fails, and the
\* list that is returned has exactly W * H pixels.
C12_InputUntouched ==
    /\ [][image' = image]_vars
    /\ []((pc = "done" => Len(out_pixels) = size[1] * size[2])
          /\ (pc = "tiles_done" => Len(out_image) = size[1] * size[2]))

\* C12, witness: a call has written sorted pixels to its output, which now
\* differs from the caller's list
C12_Witness ==
    \/ pc = "done" /\ px_indices # <<>> /\ out_pixels # image
    \/ pc = "tiles_done" /\ tiles_sorted # <<>> /\ out_image # image

(***************************************************************************)
(* Properties of the command line                                          *)
(***************************************************************************)
\* a name is given that is in no table
UnknownName(option, names) == option # "" /\ Lower(option) \notin names

\* C13: a sort key name or a path name that is not in PIXEL_KEY_DICT or
\* PIXEL_PATH_DICT is a fatal error before any pixel is traversed: the run
\* never comes to the call of sort_image with a default in its place.
C13_UnknownNamesAreFatal ==
    (\/ UnknownName(cli_args.sortkey, PIXEL_KEY_NAMES)
     \/ UnknownName(cli_args.path, PIXEL_PATH_NAMES)) =>
        pc \in {"cli", "error"}

(***************************************************************************)
(* Properties of random_walk_path                                          *)
(***************************************************************************)
RECURSIVE SumOver(_, _)
SumOver(d, keys) ==
    IF keys = {} THEN 0
    ELSE LET n == CHOOSE m \in keys : TRUE
         IN  d[n] + SumOver(d, keys \ {n})

\* the eight neighbour weights of the caller, an omitted one counted as 0,
\* sum to <= 0
SumNotPositive ==
    /\ distribution.given
    /\ distribution.ints
    /\ SumOver(distribution.weights,
               (DOMAIN distribution.weights) \cap Range(neighbors)) <= 0

RECURSIVE LimbSum(_, _, _)
LimbSum(w, j, k) == IF k = 0 THEN 0 ELSE LimbSum(w, j, k - 1) + w[neighbors[k]][j]

\* the sum of the eight neighbour weights of w minus 1, in units of 2^-56,
\* between -2^30 and 2^30
WeightError(w) ==
    LET h == LimbSum(w, 1, 8) - 4 * WalkLimb
    IN  IF h > 3 THEN 8 * WalkLimb
        ELSE IF h < -3 THEN 0 - 8 * WalkLimb
        ELSE h * WalkLimb + LimbSum(w, 2, 8)

C15_RowsAndColumns ==
    pc = "done" =>
        /\ path = "horizontal" =>
             /\ Len(path_rows) = size[2]
             /\ \A y \in 1..size[2] :
                  /\ Len(path_rows[y]) = size[1]
                  /\ \A x \in 1..size[1] : path_rows[y][x] = <<x - 1, y - 1>>
        /\ path = "vertical" =>
             /\ Len(path_rows) = size[1]
             /\ \A x \in 1..size[1] :
                  /\ Len(path_rows[x]) = size[2]
                  /\ \A y \in 1..size[2] :
                       /\ path_rows[x][y] = <<x - 1, y - 1>>
                       /\ path_rows[x][y] = horizontal_path(size)[y][x]

\* C15, witness: the columns of an image of 4 by 3 pixels
C15_Witness ==
    /\ pc = "done"
    /\ path = "vertical"
    /\ size = <<4, 3>>
    /\ Len(path_rows) = 4
    /\ path_rows[2] = << <<1, 0>>, <<1, 1>>, <<1, 2>> >>

\* the pairs <<row, position>> at which the rows have the coordinate p
Occurrences(rows, p) ==
    {ik \in (1..Len(rows)) \X (1..(MaxSide + 1) * (MaxSide + 1)) :
        ik[2] <= Len(rows[ik[1]]) /\ rows[ik[1]][ik[2]] = p}

PixelsOf(sz) == (0..(sz[1] - 1)) \X (0..(sz[2] - 1))

\* C16: diagonal_path((W, H)) is H + W - 1 rows that are not empty, row i
\* for the offset d = H - i, which holds the coordinates (x, x + d) of the
\* image, all of them, in increasing x; every pixel of the image is once in
\* one row.
C16_DiagonalRows ==
    pc = "done" /\ path = "diagonal" =>
        /\ Len(path_rows) = size[2] + size[1] - 1
        /\ \A i \in 1..Len(path_rows) :
             /\ path_rows[i] # <<>>
             /\ \A k \in 1..Len(path_rows[i]) :
                  /\ path_rows[i][k] \in PixelsOf(size)
                  /\ path_rows[i][k][2] = path_rows[i][k][1] + size[2] - i
                  /\ k > 1 => path_rows[i][k - 1][1] < path_rows[i][k][1]
             /\ \A p \in PixelsOf(size) :
                  p[2] = p[1] + size[2] - i =>
                      \E k \in 1..Len(path_rows[i]) : path_rows[i][k] = p
        /\ \A p \in PixelsOf(size) : Cardinality(Occurrences(path_rows, p)) = 1

\* C16, witness: the five rows of an image of 4 by 2 pixels
C16_Witness ==
    /\ pc = "done"
    /\ path = "diagonal"
    /\ path_rows = << << <<0, 1>> >>, << <<0, 0>>, <<1, 1>> >>,
                      << <<1, 0>>, <<2, 1>> >>, << <<2, 0>>, <<3, 1>> >>,
                      << <<3, 0>> >> >>

RECURSIVE Flatten(_)
Flatten(rows) == IF rows = <<>> THEN <<>> ELSE Head(rows) \o Flatten(Tail(rows))

\* C17: diagonal_single_path((W, H)) is one row, the rows of
\* diagonal_path((W, H)) one after the other.
C17_SingleRowOfDiagonals ==
    pc = "done" /\ path = "diagonal-single" =>
        /\ Len(path_rows) = 1
        /\ path_rows[1] = Flatten(diagonal_path(size))

\* C17, witness: the one row of an image of 2 by 4 pixels
C17_Witness ==
    /\ pc = "done"
    /\ path = "diagonal-single"
    /\ path_rows = << << <<0, 3>>, <<0, 2>>, <<1, 3>>, <<0, 1>>, <<1, 2>>,
                         <<0, 0>>, <<1, 1>>, <<1, 0>> >> >>

\* a, a + 1, ..., b and a, a - 1, ..., b
Upwards(a, b) == [k \in 1..(b - a + 1) |-> a + k - 1]

Downwards(a, b) == [k \in 1..(a - b + 1) |-> a - k + 1]

\* the rectangle from (x0, y0) to (x1, y1), both inside, traced from its
\* top-left corner: the top edge, and when the height is above 1 the right
\* edge below the corner, the bottom edge left of the corner, and the left
\* edge between the corners
Perimeter(x0, x1, y0, y1) ==
    [k \in 1..(x1 - x0 + 1) |-> <<Upwards(x0, x1)[k], y0>>]
    \o IF y0 = y1 THEN <<>>
       ELSE [k \in 1..(y1 - y0) |-> <<x1, Upwards(y0 + 1, y1)[k]>>]
            \o [k \in 1..(x1 - x0) |-> <<Downwards(x1 - 1, x0)[k], y1>>]
            \o [k \in 1..(y1 - y0 - 1) |-> <<x0, Downwards(y1 - 1, y0 + 1)[k]>>]

\* C18: row k of concentric_rectangle_path((W, H)), counted from 0, is the
\* perimeter of the rectangle [k, W - k) x [k, H - k), traced clockwise from
\* its top-left corner; there is a row for every such rectangle that is not
\* empty, and a rectangle of height 1 gives its top edge, once.
C18_PerimetersClockwise ==
    pc = "done" /\ path = "concentric" =>
        /\ Len(path_rows) = (Min(size[1], size[2]) + 1) \div 2
        /\ \A i \in 1..Len(path_rows) :
             path_rows[i] = Perimeter(i - 1, size[1] - i, i - 1, size[2] - i)
        /\ \A i \in 1..Len(path_rows) :
             size[2] - i = i - 1 =>
                 path_rows[i] = [k \in 1..(size[1] - 2 * i + 2) |-> <<i + k - 2, i - 1>>]

\* C18, witness: an image of 4 by 3 pixels gives its border of 10 pixels and
\* then (1, 1), (2, 1)
C18_Witness ==
    /\ pc = "done"
    /\ path = "concentric"
    /\ size = <<4, 3>>
    /\ path_rows = << << <<0, 0>>, <<1, 0>>, <<2, 0>>, <<3, 0>>, <<3, 1>>,
                         <<3, 2>>, <<2, 2>>, <<1, 2>>, <<0, 2>>, <<0, 1>> >>,
                      << <<1, 1>>, <<2, 1>> >> >>

(***************************************************************************)
(* Properties of the edge threshold                                        *)
(***************************************************************************)
OneColour(img) == \A j, k \in 1..Len(img) : img[j] = img[k]

\* the pixel idx is not in the first or last row or column
Inner(sz, idx) ==
    /\ idx % sz[1] > 0
    /\ idx % sz[1] < sz[1] - 1
    /\ idx \div sz[1] > 0
    /\ idx \div sz[1] < sz[2] - 1

\* C19: for an image of one colour edge_detect gives the gradient 0 at every
\* inner pixel and no value at every pixel of the border, and sort_image
\* with an edge_threshold > 0 then completes, with the output it has for
\* edge_threshold = 0.
C19_OneColourHasNoEdges ==
    pc # "call" /\ OneColour(image) /\ args.edge_threshold > 0 =>
        /\ \A idx \in 0..(Len(image) - 1) :
             IF Inner(size, idx) THEN At(edge_data, idx) = <<0, 0>>
             ELSE At(edge_data, idx) = NoneSeq
        /\ pc # "error"
        /\ pc = "done" =>
             out_pixels =
                 sort_image(image, size, [args EXCEPT !.edge_threshold = 0]).out_pixels


(***************************************************************************)
(* The coordinates of the paths and the image                              *)
(***************************************************************************)
\* the flat index y * W + x of a coordinate is an index of the image
FlatIndexed(p) == p[2] * size[1] + p[1] \in 0..(size[1] * size[2] - 1)

InImage(p) == p \in PixelsOf(size) /\ FlatIndexed(p)

\* every coordinate of the rows read so far, and the last coordinate a row
\* has yielded, is in the image
AllInImage ==
    /\ \A i \in 1..Len(path_rows) :
         \A j \in 1..Len(path_rows[i]) : InImage(path_rows[i][j])
    /\ yielded # <<>> => InImage(yielded)

\* draw_line yields the coordinate it has generated when that is in the
\* image and goes on, and ends without a yield when it is not
LineEndsOutside ==
    pc = "line" =>
        IF line.current_point \in PixelsOf(size)
        THEN /\ yielded' = line.current_point
             /\ path_rows'[Len(path_rows)] =
                    Append(path_rows[Len(path_rows)], line.current_point)
             /\ pc' = "line"
        ELSE /\ pc' = "lines"
             /\ path_rows' = path_rows
             /\ yielded' = yielded

\* random_walk_iter yields the coordinate it has generated when that is in
\* the image and goes on, and ends without a yield when it is not
WalkEndsOutside ==
    pc = "walk_iter" /\ walk_len < MaxWalk =>
        IF walk_pos' \in PixelsOf(size)
        THEN /\ yielded' = walk_pos'
             /\ pc' = "walk_iter"
        ELSE /\ pc' = "walk_rows"
             /\ yielded' = yielded

\* C20: every coordinate that a path of PIXEL_PATH_DICT yields has
\* 0 <= x < W and 0 <= y < H, so that y * W + x is in [0, W * H); a row of
\* angled_path and a row of a random walk end at the first coordinate they
\* generate outside the image, and that coordinate is not yielded
C20_CoordinatesInImage ==
    /\ []AllInImage
    /\ [][LineEndsOutside]_vars
    /\ [][WalkEndsOutside]_vars

\* C20, witness: in an image of 4 by 3 pixels the line of slope 3/4 from
\* (1, 0) has yielded (1, 0), (2, 0) and (3, 1) and has ended at (4, 2)
C20_Witness ==
    /\ pc = "lines"
    /\ path = "angled-line"
    /\ size = <<4, 3>>
    /\ path_kwargs.angle = "36.86989764584402"
    /\ line.start = <<1, 0>>
    /\ line.current_point = <<4, 2>>
    /\ path_rows[Len(path_rows)] = << <<1, 0>>, <<2, 0>>, <<3, 1>> >>


(***************************************************************************)
(* Properties of the random walks of horizontal_random_walk and            *)
(* vertical_random_walk                                                    *)
(***************************************************************************)
\* every coordinate of a row of horizontal_random_walk is one to the right
\* of the position before it, and one further down in vertical_random_walk
WalksForward ==
    (pc = "walk_iter" /\ pc' = "walk_iter" /\ walk_len' = walk_len + 1) =>
        /\ path = "random-walk-horizontal" => yielded'[1] = walk_pos[1] + 1
        /\ path = "random-walk-vertical" => yielded'[2] = walk_pos[2] + 1

\* C21: the first coordinate of every row of horizontal_random_walk((W, H))
\* is a pixel (0, y) of the left edge, and the first coordinate of every row
\* of vertical_random_walk is a pixel (x, 0) of the top edge.
C21_RowsStartOnTheEdge ==
    (pc = "walk_iter" /\ walk_len = 1) =>
        /\ path = "random-walk-horizontal" => yielded[1] = 0
        /\ path = "random-walk-vertical" => yielded[2] = 0

\* the later coordinates of C21, which the walks do have
C21_LaterCoordinates == [][WalksForward]_vars


(***************************************************************************)
(* Properties of the lines of angled_path                                  *)
(***************************************************************************)
\* the row goes by one in y from coordinate to coordinate, and after n
\* steps x has moved by the number of times that the error, which grows by
\* 1 / |slope| = den / num a step from -1, has come above 0
FollowsSteepSlope(row, num, den) ==
    \A n \in 1..(Len(row) - 1) :
        /\ Abs(row[n + 1][2] - row[1][2]) = n
        /\ Abs(row[n + 1][1] - row[1][1]) * num < n * den
        /\ Abs(row[n + 1][1] - row[1][1]) * num >= n * den - num

\* C22: for a slope with |slope| > 1, positive or negative, a line of
\* angled_path steps y by one per coordinate and moves x only when the error
\* that grows by 1 / |slope| per step has come above its threshold, so that
\* the line has the slope that was asked for and is not a diagonal of 45
\* degrees.
C22_SteepLinesFollowTheSlope ==
    (/\ path = "angled-line"
     /\ AngleMod180(path_kwargs.angle) = 1
     /\ Abs(Tan(path_kwargs.angle)[1]) > Tan(path_kwargs.angle)[2]) =>
        \A i \in 1..Len(path_rows) :
            FollowsSteepSlope(path_rows[i], Abs(Tan(path_kwargs.angle)[1]),
                              Tan(path_kwargs.angle)[2])

\* the lines of the slopes above 1, which draw_line does exchange x and y for
C22_PositiveSlopes ==
    (/\ path = "angled-line"
     /\ AngleMod180(path_kwargs.angle) = 1
     /\ Tan(path_kwargs.angle)[1] > 0) => C22_SteepLinesFollowTheSlope


(***************************************************************************)
(* Properties of the circles                                               *)
(***************************************************************************)
\* the coordinates of the rows, as a set
Covered(rows) == UNION {{rows[i][j] : j \in 1..Len(rows[i])} : i \in 1..Len(rows)}

\* C23: the rows of concentric_circles_path((W, H)), the circles of radius
\* 0, 1, 2, ... about (W // 2, H // 2) cut to the image, hold every pixel of
\* the image between them: no pixel is left out between two circles.
C23_CirclesLeaveNoGap ==
    (pc = "done" /\ path = "circles") => PixelsOf(size) \subseteq Covered(path_rows)

\* C23, witness: an image of 5 by 4 pixels has seven circles about (2, 2),
\* and its corner (4, 0) is on the circle of radius 3
C23_Witness ==
    /\ pc = "done"
    /\ path = "circles"
    /\ size = <<5, 4>>
    /\ Len(path_rows) = 7
    /\ <<4, 0>> \in Covered(<<path_rows[4]>>)


(***************************************************************************)
(* Properties of create_sort_mask                                          *)
(***************************************************************************)
\* a step leaves every 1 of the mask a 1, and every entry is 0 or 1
MaskOnlyGrows ==
    /\ \A k \in 1..Len(sort_mask) : sort_mask[k] = <<1, 1>> => sort_mask'[k] = <<1, 1>>
    /\ \A k \in 1..Len(sort_mask') : sort_mask'[k] \in {<<0, 1>>, <<1, 1>>}

\* the mask that create_sort_mask returns has a 1 at every pixel that the
\* tests before the path have marked and at the last coordinate of every row
\* of the path that is not empty
MaskReturned ==
    pc = "call_mask" =>
        /\ \A i \in 0..(size[1] * size[2] - 1) :
             PreMarked(args, image, edge_data, i) => At(sort_mask, i) = <<1, 1>>
        /\ \A r \in 1..Len(PathOf(args, size)) :
             LET row == PathOf(args, size)[r]
             IN  row # <<>> =>
                    At(sort_mask, coords_to_index(row[Len(row)], size[1])) = <<1, 1>>

\* apply_sort_mask has sorted every pixel of a row when the row ends
RowsFlushed == pc \in {"mask_rows", "mask_done"} => px_indices = <<>>

\* C24: create_sort_mask changes entries of the mask from 0 to 1 only; the
\* mask it returns has a 1 at every pixel marked by the image mask, the edge
\* test or the brightness test and at the last coordinate of every row that
\* is not empty, so that apply_sort_mask over the same path has no pixel
\* left in a run that it has not sorted when a row ends.
C24_MaskEndsEveryRow ==
    /\ [][MaskOnlyGrows]_vars
    /\ []MaskReturned
    /\ []RowsFlushed

\* C24, witness: for four pixels in a row and max_interval = 2 the mask is
\* 0, 1, 0, 1 and apply_sort_mask has sorted the two pairs
C24_Witness ==
    /\ pc = "mask_done"
    /\ size = <<4, 1>>
    /\ args.max_interval = 2
    /\ image = Descending(4)
    /\ sort_mask = << <<0, 1>>, <<1, 1>>, <<0, 1>>, <<1, 1>> >>
    /\ out_pixels = << <<3, 0, 0>>, <<4, 0, 0>>, <<1, 0, 0>>, <<2, 0, 0>> >>


(***************************************************************************)
(* Properties of the discretization                                        *)
(***************************************************************************)
\* floor(key(p) / d)
Bucket(key, d, p) == FloorOf(KeyValue(key, p), d)

\* o is i in the order of the buckets, ascending or descending, the pixels
\* of one bucket in the order they have in i
StableByBucket(o, i, key, d, reverse) ==
    /\ Len(o) = Len(i)
    /\ \E f \in Injections(Len(i)) :
         /\ \A k \in 1..Len(i) : o[k] = i[f[k]]
         /\ \A j, k \in 1..Len(i) :
              j < k => \/ ~reverse /\ Bucket(key, d, o[j]) < Bucket(key, d, o[k])
                       \/ reverse /\ Bucket(key, d, o[j]) > Bucket(key, d, o[k])
                       \/ Bucket(key, d, o[j]) = Bucket(key, d, o[k]) /\ f[j] < f[k]

\* the run that a step has sorted is in the order of the buckets
RunOrderedByBucket ==
    (pc = "row" /\ args.key # None /\ args.discretize > 0 /\ px_indices' # <<>>) =>
        StableByBucket(Pick(out_pixels', px_indices'), Pick(out_pixels, px_indices'),
                       args.key, args.discretize, args.reverse)

\* C25: with discretize = d > 0 and a key every run is ordered by the bucket
\* floor(key(p) / d) alone, ascending, or descending with reverse = True;
\* the pixels of a run that fall into one bucket keep the order in which
\* they were met, in both directions.
C25_RunsOrderedByBucket == [][RunOrderedByBucket]_vars

\* C25, witness: with the key red, d = 2 and reverse = True the pixels of
\* red 2, 1, 3, 2 come out as 2, 3, 2, 1: the three pixels of bucket 1 in
\* the order they had, then the pixel of bucket 0
C25_Witness ==
    /\ pc = "done"
    /\ args.key = "red"
    /\ args.discretize = 2
    /\ args.reverse
    /\ image = << <<2, 255, 0>>, <<1, 0, 0>>, <<3, 0, 0>>, <<2, 0, 0>> >>
    /\ out_pixels = << <<2, 255, 0>>, <<3, 0, 0>>, <<2, 0, 0>>, <<1, 0, 0>> >>


(***************************************************************************)
(* The pixels of the output of sort_image                                  *)
(***************************************************************************)
\* how often the pixel p is in the list l
Count(l, p) == Cardinality({k \in 1..Len(l) : l[k] = p})

\* C26: over the rows, the columns, diagonal and diagonal-single, whatever
\* the interval size, the markers, the key and the rearrangement after the
\* sort, the output of sort_image holds every pixel value as often as the
\* input does, after every run that has been sorted.
C26_OutputIsPermutation ==
    pc # "call" =>
        /\ Len(out_pixels) = Len(image)
        /\ \A k \in 1..Len(image) :
             Count(out_pixels, image[k]) = Count(image, image[k])

\* C26, witness: a diagonal run has been sorted, mirrored and written back,
\* and the output is not the input
C26_Witness ==
    /\ pc = "done"
    /\ args.path = "diagonal"
    /\ args.mirror
    /\ size = <<2, 2>>
    /\ out_pixels # image


(***************************************************************************)
(* The rows of concentric_rectangle_path                                   *)
(***************************************************************************)
\* C27: the rows of concentric_rectangle_path((W, H)) hold every pixel of
\* the image exactly once between them, also where the innermost rectangle
\* is one pixel wide and three or more pixels tall.
C27_RectanglesMeetPixelsOnce ==
    (pc = "done" /\ path = "concentric") =>
        \A p \in PixelsOf(size) : Count(Flatten(path_rows), p) = 1

\* what does hold: no pixel is left out, and none is repeated unless the
\* width is odd and the height is the width plus two or more
C27_RectanglesLeaveNoGap ==
    (pc = "done" /\ path = "concentric") =>
        /\ PixelsOf(size) \subseteq Covered(path_rows)
        /\ Covered(path_rows) \subseteq PixelsOf(size)
        /\ ~(size[1] % 2 = 1 /\ size[2] >= size[1] + 2) =>
              \A p \in PixelsOf(size) : Count(Flatten(path_rows), p) = 1


(***************************************************************************)
(* The rows of concentric_circle                                           *)
(***************************************************************************)
\* C28: no row of concentric_circles_path or fill_with_circles_path, each
\* one concentric_circle cut to the image, holds a coordinate twice: the
\* copies of the octant do not count the pixels of the axes and of the line
\* x = y again, and the circle of radius 0 is the center once.
C28_CircleRowsRepeatNothing ==
    (pc = "done" /\ path \in {"circles", "fill-circles"}) =>
        \A r \in 1..Len(path_rows) :
            \A k \in 1..Len(path_rows[r]) : Count(path_rows[r], path_rows[r][k]) = 1


(***************************************************************************)
(* Termination of sort_image                                               *)
(***************************************************************************)
\* C29: sort_image returns (or raises) for every max_interval that the
\* command line takes, zero, positive or negative, every progressive_amount
\* and either value of randomize: every pass of the interval loop takes a
\* coordinate from the row or finishes the row.
C29_SortImageTerminates == <>(pc \in {"done", "error"})

\* what does hold: the calls whose max_interval is not negative return
C29_TerminatesFromZeroUp == (args.max_interval >= 0) ~> (pc \in {"done", "error"})

\* a pass of the interval loop with a negative interval: no coordinate is
\* read, the row is not finished, and the pass leaves the state as it is
C29_StuckPass ==
    /\ pc = "row"
    /\ args.max_interval < 0
    /\ LET g == Gather(args, image, edge_data, size[1], row_iter, 0,
                       GrownInterval(args, current_max_interval), <<>>)
       IN  g.row_iter = row_iter /\ ~g.path_finished /\ g.px_indices = <<>>


(***************************************************************************)
(* sort_image of the output of sort_image                                  *)
(***************************************************************************)
\* C30: over the rows, the columns or diagonal, without random intervals,
\* edge test, mirror or splice, sort_image of the output of sort_image with
\* the same arguments is that output again, whatever the key,
\* max_interval >= 0, progressive_amount, discretize, reverse, image mask
\* and brightness threshold.
C30_SortingTwiceIsSortingOnce ==
    pc = "done" =>
        LET again == sort_image(out_pixels, size, args)
        IN  ~again.raised /\ again.out_pixels = out_pixels

\* C30, witness: a call with intervals of two pixels and an image mask that
\* marks a pixel has returned an output that is not its input, and the
\* second call returns that output
C30_Witness ==
    /\ pc = "done"
    /\ size = <<4, 1>>
    /\ args.max_interval = 2
    /\ \E idx \in 0..3 : MaskBoundary(args, idx)
    /\ image = << <<2, 255, 0>>, <<1, 0, 0>>, <<2, 255, 0>>, <<1, 0, 0>> >>
    /\ out_pixels # image
    /\ sort_image(out_pixels, size, args).out_pixels = out_pixels


====
